---- MODULE Spec2Model ----
(***************************************************************************)
(* A state-machine model of the MiniGUI shell (minigui.c), its navigation  *)
(* drawer (minigui_menu.c) and its three screens (screen_home.c,           *)
(* screen_logs.c, screen_settings.c).                                      *)
(*                                                                         *)
(* The program state is kept in one record per translation unit, holding   *)
(* that unit's file-scope globals under their source names, plus one       *)
(* record for the state of the widget toolkit the program drives (the      *)
(* widget tree, label texts, flags, event registrations, timers, the lock, *)
(* the log table) and one for the heap.  A handler is an operator from a   *)
(* machine state to a machine state, written statement by statement; an    *)
(* action applies one handler and commits its result.                      *)
(***************************************************************************)
EXTENDS Integers, Sequences, FiniteSets, TLC

VARIABLES
    build,      \* compile-time configuration (fixed during a behaviour)
    shell,      \* file globals of minigui.c
    menu,       \* file globals of minigui_menu.c
    logs,       \* file globals of screens/screen_logs.c
    settings,   \* file globals of screens/screen_settings.c
    lvgl,       \* toolkit state: widgets, texts, flags, callbacks, timers, lock
    heap,       \* outstanding heap blocks of the program
    tasks,      \* where each application thread stands in minigui_switch_screen
    world,      \* what the outside would answer now: network status, system stats
    trace       \* what the handler that ran last did (history variable)

vars == <<build, shell, menu, logs, settings, lvgl, heap, tasks, world, trace>>

----------------------------------------------------------------------------
(* Bounds of the model *)

\* screen ids tried by callers run from 0 to MaxScreenArg (ids >= 3 are invalid)
MaxScreenArg == 4
\* deferred-load timers that may be pending at once
MaxLoadTimers == 1
\* largest entry count a log provider is made to return, besides the full buffer
MaxProvided == 2
\* largest max_count the WiFi scan bridge is called with
MaxScanCount == 6
\* register calls made in one run
MaxRegistrations == 2
\* longest password typed into the password field (the field of the
\* credentials holds 127 characters)
MaxPasswordLen == 129

(* Program constants *)

MINIGUI_SCREEN_HOME == 0
MINIGUI_SCREEN_LOGS == 1
MINIGUI_SCREEN_SETTINGS == 2
MINIGUI_SCREEN_COUNT == 3
MINIGUI_MAX_LOGS == 50

SETTINGS_CAT_SCREEN == 0
SETTINGS_CAT_NETWORK == 1
SETTINGS_CAT_SYSTEM == 2
SETTINGS_CAT_MONITOR == 3
SETTINGS_CAT_COUNT == 4

DRAWER_WIDTH == 250

NULL == "NULL"

\* the callbacks an application may register on a hook
Callbacks == {"cbA", "cbB"}

\* the threads of the program: the toolkit's loop and an application task
Threads == {"ui", "app"}

\* the application threads that call minigui_switch_screen concurrently
Tasks == {"app", "net"}

----------------------------------------------------------------------------
(* The machine state threaded through the handlers *)

Machine ==
    [build |-> build, shell |-> shell, menu |-> menu, logs |-> logs,
     settings |-> settings, lvgl |-> lvgl, heap |-> heap, tasks |-> tasks,
     world |-> world,
     trace |-> trace]

Commit(s) ==
    /\ build' = s.build
    /\ shell' = s.shell
    /\ menu' = s.menu
    /\ logs' = s.logs
    /\ settings' = s.settings
    /\ lvgl' = s.lvgl
    /\ heap' = s.heap
    /\ tasks' = s.tasks
    /\ world' = s.world
    /\ trace' = s.trace

\* a fresh history record for the handler `op` called with `arg` on `thread`
Enter(s, op, arg, thread) ==
    [s EXCEPT !.trace = [op |-> op, arg |-> arg, thread |-> thread,
                         log |-> << >>, switches |-> << >>,
                         calls |-> << >>, out |-> << >>,
                         registered |-> s.trace.registered,
                         replaced |-> s.trace.replaced,
                         nreg |-> s.trace.nreg]]

\* history: one event of the running handler, with the lock depth it ran at
Log(s, kind, what) ==
    [s EXCEPT !.trace.log = Append(@, <<kind, what, s.lvgl.lock_depth>>)]

----------------------------------------------------------------------------
(* The toolkit operations the program calls *)

\* lv_lock(): the toolkit's recursive mutex
lv_lock(s) ==
    Log([s EXCEPT !.lvgl.lock_depth = @ + 1,
                  !.lvgl.lock_owner = s.trace.thread], "lock", "lv_lock")

lv_unlock(s) ==
    LET d == s.lvgl.lock_depth - 1
    IN Log([s EXCEPT !.lvgl.lock_depth = d,
                     !.lvgl.lock_owner = IF d = 0 THEN NULL ELSE @],
           "unlock", "lv_unlock")

Live(s) == {p[1] : p \in s.lvgl.tree}

IsLive(s, obj) == obj \in Live(s)

\* a pointer that is not NULL and whose object was deleted
Dangling(s, ptr) == ptr # NULL /\ ~IsLive(s, ptr)

RECURSIVE Below(_, _, _)
Below(tree, frontier, acc) ==
    LET kids == {p[1] : p \in {q \in tree : q[2] \in frontier}} \ acc
    IN IF kids = {} THEN acc ELSE Below(tree, kids, acc \cup kids)

\* every widget below obj in the widget tree
Descendants(s, obj) == Below(s.lvgl.tree, {obj}, {})

\* lv_obj_create / lv_label_create / lv_button_create / ...: a widget under parent
lv_obj_create(s, obj, parent) ==
    Log([s EXCEPT !.lvgl.tree = @ \cup {<<obj, parent>>}], "mut", obj)

\* lv_obj_set_style_*, lv_obj_set_size, lv_obj_align, ...: geometry and style,
\* of which only the fact that obj was written is kept
lv_obj_set_style(s, obj) == Log(s, "mut", obj)

TextOf(s, obj) == IF obj \in DOMAIN s.lvgl.text THEN s.lvgl.text[obj] ELSE ""

lv_label_set_text(s, obj, txt) ==
    Log([s EXCEPT !.lvgl.text = (obj :> txt) @@ @], "mut", obj)

lv_obj_add_flag(s, obj, flag) ==
    Log([s EXCEPT !.lvgl.flags = @ \cup {<<obj, flag>>}], "mut", obj)

lv_obj_remove_flag(s, obj, flag) ==
    Log([s EXCEPT !.lvgl.flags = @ \ {<<obj, flag>>}], "mut", obj)

lv_obj_has_flag(s, obj, flag) == <<obj, flag>> \in s.lvgl.flags

\* lv_obj_add_event_cb(obj, cb, filter, user_data); registering the same
\* callback again on the same object adds nothing the handlers can observe
lv_obj_add_event_cb(s, obj, cb, filter, user_data) ==
    Log([s EXCEPT !.lvgl.cbs = @ \cup {<<obj, cb, filter, user_data>>}],
        "mut", obj)

lv_timer_create(s, cb) ==
    Log([s EXCEPT !.lvgl.timers[cb] = @ + 1], "timer_create", cb)

lv_timer_del(s, cb) ==
    Log([s EXCEPT !.lvgl.timers[cb] = @ - 1], "timer_del", cb)

\* lv_anim_start on the drawer's x: the start value is applied at once;
\* last_anim keeps the values of the animation started last (history)
lv_anim_start(s, obj, from, to) ==
    Log([s EXCEPT !.lvgl.anim = <<from, to>>, !.lvgl.drawer_x = from,
                  !.lvgl.last_anim = <<from, to>>],
        "mut", obj)

(* lv_table: the rows of the one table the program creates, cells as strings *)

EmptyRow == <<"", "", "", "">>

\* a write through a pointer to a deleted widget reaches no widget
Stale(s, obj) == Log(s, "uaf", obj)

lv_table_get_row_cnt(s, obj) == IF IsLive(s, obj) THEN Len(s.lvgl.table) ELSE 0

lv_table_set_row_cnt(s, obj, cnt) ==
    LET old == s.lvgl.table
        new == [i \in 1..cnt |-> IF i <= Len(old) THEN old[i] ELSE EmptyRow]
    IN IF ~IsLive(s, obj) THEN Stale(s, obj)
       ELSE Log([s EXCEPT !.lvgl.table = new], "mut", obj)

\* lv_table_set_cell_value(obj, row, col, txt), row and col counted from 0;
\* the table grows when row is beyond its last row
lv_table_set_cell_value(s, obj, row, col, txt) ==
    LET old == s.lvgl.table
        cnt == IF row + 1 > Len(old) THEN row + 1 ELSE Len(old)
        grown == [i \in 1..cnt |-> IF i <= Len(old) THEN old[i] ELSE EmptyRow]
    IN IF ~IsLive(s, obj) THEN Stale(s, obj)
       ELSE Log([s EXCEPT !.lvgl.table =
                    [grown EXCEPT ![row + 1] = [@ EXCEPT ![col + 1] = txt]]],
                "mut", obj)

\* a loop of lv_table_set_cell_value(obj, row, col, rows[row][col]) over the
\* rows 0 .. Len(rows)-1 and the columns 0 .. 3; the history keeps one event
\* for a loop that wrote at least one cell
lv_table_set_rows(s, obj, rows) ==
    LET old == s.lvgl.table
        live == IsLive(s, obj)
        cnt == IF Len(rows) > Len(old) THEN Len(rows) ELSE Len(old)
        events == [k \in 1..(IF Len(rows) > 0 THEN 1 ELSE 0) |->
                      <<IF live THEN "mut" ELSE "uaf", obj, s.lvgl.lock_depth>>]
    IN [s EXCEPT !.lvgl.table =
                     IF live
                     THEN [r \in 1..cnt |-> IF r <= Len(rows) THEN rows[r] ELSE old[r]]
                     ELSE @,
                 !.trace.log = @ \o events]

lv_table_set_col_width(s, obj, col, w) ==
    IF ~IsLive(s, obj) THEN Stale(s, obj)
    ELSE Log([s EXCEPT !.lvgl.col_width = [@ EXCEPT ![col + 1] = w]], "mut", obj)

\* lv_dropdown_set_options / lv_dropdown_set_selected / get_selected_str
lv_dropdown_set_options(s, obj, options) ==
    Log([s EXCEPT !.lvgl.options = (obj :> options) @@ @,
                  !.lvgl.selected = (obj :> 0) @@ @], "mut", obj)

lv_dropdown_set_selected(s, obj, sel) ==
    Log([s EXCEPT !.lvgl.selected = (obj :> sel) @@ @], "mut", obj)

lv_dropdown_get_selected_str(s, obj) ==
    LET opts == s.lvgl.options[obj]
        sel == s.lvgl.selected[obj]
    IN IF sel + 1 <= Len(opts) THEN opts[sel + 1] ELSE ""

\* lv_dropdown_clear_options: the options go, the selected index stays
lv_dropdown_clear_options(s, obj) ==
    Log([s EXCEPT !.lvgl.options = (obj :> << >>) @@ @], "mut", obj)

\* lv_dropdown_add_option(obj, option, pos): option becomes the pos-th line of
\* the option text (the last one when pos is beyond the lines there are); no
\* delimiter is put after an option text that is empty, so that a lone empty
\* option is overwritten by an option added behind it
lv_dropdown_add_option(s, obj, option, pos) ==
    LET old == s.lvgl.options[obj]
        at == IF pos > Len(old) THEN Len(old) ELSE pos
        new == IF old = <<"">> /\ pos >= 1 THEN <<option>>
               ELSE SubSeq(old, 1, at) \o <<option>> \o SubSeq(old, at + 1, Len(old))
    IN Log([s EXCEPT !.lvgl.options = (obj :> new) @@ @], "mut", obj)

\* lv_obj_add_state / lv_obj_remove_state
lv_obj_add_state(s, obj, state) ==
    Log([s EXCEPT !.lvgl.flags = @ \cup {<<obj, state>>}], "mut", obj)

lv_obj_remove_state(s, obj, state) ==
    Log([s EXCEPT !.lvgl.flags = @ \ {<<obj, state>>}], "mut", obj)

\* lv_keyboard_set_textarea(kb, ta): the keyboard writes to ta from now on
lv_keyboard_set_textarea(s, kb, ta) ==
    Log([s EXCEPT !.lvgl.flags = {f \in @ : f[1] # kb \/ f[2] \in {"HIDDEN"}}
                                    \cup {<<kb, "textarea=" \o ta>>}], "mut", kb)

lv_textarea_get_text(s, obj) == TextOf(s, obj)

\* the first n characters of a string: what strncpy(dst, src, n) followed by
\* dst[n] = 0 leaves in dst, and what a copy into a buffer of n + 1 bytes keeps
Take(str, n) == IF Len(str) <= n THEN str ELSE SubSeq(str, 1, n)

----------------------------------------------------------------------------
(* screens/screen_settings.c: the handlers the toolkit runs on deletion *)

\* mutant: the deletion of the Monitor panel cleans nothing up
monitor_panel_delete_cb_Noop(s) == s

monitor_panel_delete_cb(s) ==
    LET s1 == IF s.settings.monitor_timer # NULL
              THEN [lv_timer_del(s, "monitor_timer_cb")
                        EXCEPT !.settings.monitor_timer = NULL]
              ELSE s
    IN [s1 EXCEPT !.settings.lbl_voltage = NULL,
                  !.settings.lbl_cpu = NULL,
                  !.settings.lbl_flash = NULL,
                  !.settings.lbl_ram = NULL]

settings_screen_event_cb(s, code) ==
    IF code = "LV_EVENT_DELETE"
    THEN [s EXCEPT !.settings.content_pane = NULL, !.settings.kb = NULL]
    ELSE s

\* LV_EVENT_DELETE is sent to each deleted widget, and runs the handlers
\* registered on it for that event
SendDelete(s, dead) ==
    LET regs == {r \in s.lvgl.cbs : r[1] \in dead /\ r[3] = "LV_EVENT_DELETE"}
        s1 == IF \E r \in regs : r[2] = "monitor_panel_delete_cb"
              THEN monitor_panel_delete_cb(Log(s, "call", "monitor_panel_delete_cb"))
              ELSE s
    IN IF \E r \in regs : r[2] = "settings_screen_event_cb"
       THEN settings_screen_event_cb(Log(s1, "call", "settings_screen_event_cb"),
                                     "LV_EVENT_DELETE")
       ELSE s1

Restrict(f, gone) == [x \in (DOMAIN f) \ gone |-> f[x]]

\* lv_obj_clean(obj): delete every widget below obj; obj itself, its styles and
\* its event registrations stay
lv_obj_clean(s, obj) ==
    LET dead == Descendants(s, obj)
        s1 == SendDelete(s, dead)
    IN Log([s1 EXCEPT
            !.lvgl.tree = {p \in @ : p[1] \notin dead},
            !.lvgl.text = Restrict(@, dead),
            !.lvgl.flags = {f \in @ : f[1] \notin dead},
            !.lvgl.cbs = {r \in @ : r[1] \notin dead},
            !.lvgl.options = Restrict(@, dead),
            !.lvgl.selected = Restrict(@, dead),
            !.lvgl.table = IF "data_table" \in dead THEN << >> ELSE @,
            !.lvgl.col_width = IF "data_table" \in dead THEN <<0, 0, 0, 0>> ELSE @],
           "clean", obj)

----------------------------------------------------------------------------
(* minigui.c: the bridge between the widgets and the registered callbacks *)

\* history: the program calls through the function pointer cb of a hook
\* with args, and the callback answers result
Invoke(s, hook, cb, args, result) ==
    Log([s EXCEPT !.trace.calls =
            Append(@, [hook |-> hook, cb |-> cb, args |-> args, result |-> result])],
        "invoke", hook)

\* history: what a bridge function hands back to its caller
Return(s, value) == [s EXCEPT !.trace.out = value]

\* mutant: the clock always shows the libc time
update_clock_cb_LibcOnly(s, env) ==
    IF s.shell.lbl_clock = NULL THEN s
    ELSE lv_label_set_text(Log(s, "libc", "strftime"), s.shell.lbl_clock,
                           env.libc_time)

\* update_clock_cb; env.time_out is what a registered time provider writes into
\* buf, env.libc_time what strftime writes there
update_clock_cb(s, env) ==
    IF s.shell.lbl_clock = NULL THEN s
    ELSE IF s.shell.global_time_provider # NULL
    THEN lv_label_set_text(
             Invoke(s, "time", s.shell.global_time_provider, <<32>>, env.time_out),
             s.shell.lbl_clock, env.time_out)
    ELSE lv_label_set_text(Log(s, "libc", "strftime"), s.shell.lbl_clock,
                           env.libc_time)

minigui_register_brightness_cb(s, cb) == [s EXCEPT !.shell.brightness_cb = cb]

minigui_register_wifi_save_cb(s, cb) == [s EXCEPT !.shell.wifi_save_cb = cb]

\* mutant: the first provider registered stays
minigui_register_wifi_scan_provider_KeepFirst(s, provider) ==
    IF s.shell.wifi_scan_provider = NULL
    THEN [s EXCEPT !.shell.wifi_scan_provider = provider]
    ELSE s

minigui_register_wifi_scan_provider(s, provider) ==
    [s EXCEPT !.shell.wifi_scan_provider = provider]

minigui_register_system_stats_provider(s, provider) ==
    [s EXCEPT !.shell.system_stats_provider = provider]

minigui_register_network_status_provider(s, provider) ==
    [s EXCEPT !.shell.network_status_provider = provider]

\* mutant: the function returns early, with the lock held, when there is no clock
minigui_set_time_provider_Leak(s, provider, env) ==
    LET s1 == [s EXCEPT !.shell.global_time_provider = provider]
        s2 == lv_lock(s1)
    IN IF s2.shell.lbl_clock = NULL THEN s2
       ELSE lv_unlock(update_clock_cb(s2, env))

minigui_set_time_provider(s, provider, env) ==
    LET s1 == [s EXCEPT !.shell.global_time_provider = provider]
        s2 == lv_lock(s1)
        s3 == IF s2.shell.lbl_clock # NULL THEN update_clock_cb(s2, env) ELSE s2
    IN lv_unlock(s3)

\* mutant: the call is made without the test of the pointer
minigui_set_brightness_NoCheck(s, brightness) ==
    Invoke(s, "brightness", s.shell.brightness_cb, <<brightness>>, "void")

minigui_set_brightness(s, brightness) ==
    IF s.shell.brightness_cb # NULL
    THEN Invoke(s, "brightness", s.shell.brightness_cb, <<brightness>>, "void")
    ELSE s

minigui_save_wifi_credentials(s, creds) ==
    IF s.shell.wifi_save_cb # NULL
    THEN Invoke(s, "wifi_save", s.shell.wifi_save_cb, <<creds>>, "void")
    ELSE s

mock_ssids ==
    <<"Home_WiFi_2.4G", "Office_Secure", "CoffeeShop_Free", "Starlink_99", "Guest_Lounge">>

\* -50 - (i * 10) computed in size_t and stored into an int8_t: the low byte
\* of the unsigned difference (the wrap of size_t is a multiple of 256), read
\* as a signed byte
MockRssi(i) ==
    LET b == (256 - ((50 + (i * 10)) % 256)) % 256
    IN IF b >= 128 THEN b - 256 ELSE b

\* mutant: the mock fills its five networks whatever max_count is
minigui_scan_wifi_NoClamp(s, max_count, answer) ==
    IF s.shell.wifi_scan_provider # NULL
    THEN Return(Invoke(s, "wifi_scan", s.shell.wifi_scan_provider, <<max_count>>,
                       answer), answer)
    ELSE Return(s, [count |-> 5,
                    networks |-> [i \in 1..5 |->
                                     [ssid |-> mock_ssids[i], rssi |-> MockRssi(i - 1)]]])

\* minigui_scan_wifi; answer is what a registered provider writes and returns;
\* networks holds the entries of the caller's buffer that were written
minigui_scan_wifi(s, max_count, answer) ==
    IF s.shell.wifi_scan_provider # NULL
    THEN Return(Invoke(s, "wifi_scan", s.shell.wifi_scan_provider, <<max_count>>,
                       answer), answer)
    ELSE LET count == IF 5 < max_count THEN 5 ELSE max_count
             networks == [i \in 1..count |->
                             [ssid |-> Take(mock_ssids[i], 63),
                              rssi |-> MockRssi(i - 1)]]
         IN Return(s, [count |-> count, networks |-> networks])

\* minigui_get_system_stats; answer is what a registered provider writes,
\* ticks the two readings of lv_tick_get() the mock makes
minigui_get_system_stats(s, answer, ticks) ==
    IF s.shell.system_stats_provider # NULL
    THEN Return(Invoke(s, "system_stats", s.shell.system_stats_provider, << >>,
                       answer), answer)
    ELSE Return(s, [voltage_cV |-> 500 + (ticks[1] % 100),
                    cpu_usage |-> (15 + (ticks[2] % 40)) % 256,
                    flash_used_kb |-> 512, flash_total_kb |-> 4096,
                    ram_used_kb |-> 128, ram_total_kb |-> 520])

MockNetworkStatus ==
    [connected |-> TRUE, ssid |-> "Home_WiFi_2.4G",
     ip_address |-> "192.168.1.42", mac_address |-> "AA:BB:CC:DD:EE:FF"]

minigui_get_network_status(s, answer) ==
    IF s.shell.network_status_provider # NULL
    THEN Return(Invoke(s, "network_status", s.shell.network_status_provider, << >>,
                       answer), answer)
    ELSE Return(s, MockNetworkStatus)

minigui_get_content_area(s) == s.shell.content_area

----------------------------------------------------------------------------
(* minigui_menu.c: the drawer *)

btn_texts == <<"Home", "Logs", "Settings">>

\* mutant: the ids of Logs and Settings are exchanged
screen_ids_Swapped ==
    <<MINIGUI_SCREEN_HOME, MINIGUI_SCREEN_SETTINGS, MINIGUI_SCREEN_LOGS>>

screen_ids == <<MINIGUI_SCREEN_HOME, MINIGUI_SCREEN_LOGS, MINIGUI_SCREEN_SETTINGS>>

NavBtn(i) == "btn_" \o btn_texts[i]

RECURSIVE CreateNavButtons(_, _)
CreateNavButtons(s, i) ==
    IF i > 3 THEN s
    ELSE LET btn == NavBtn(i)
             lbl == "lbl_" \o btn_texts[i]
             s1 == lv_obj_create(s, btn, "menu_drawer")
             s2 == lv_obj_create(s1, lbl, btn)
             s3 == lv_label_set_text(s2, lbl, btn_texts[i])
             s4 == lv_obj_add_event_cb(s3, btn, "nav_btn_cb", "LV_EVENT_CLICKED",
                                       screen_ids[i])
         IN CreateNavButtons(s4, i + 1)

minigui_menu_init(s) ==
    LET s1 == [lv_obj_create(s, "menu_blocker", "top")
                  EXCEPT !.menu.menu_blocker = "menu_blocker"]
        s2 == lv_obj_add_flag(s1, "menu_blocker", "HIDDEN")
        s3 == lv_obj_add_event_cb(s2, "menu_blocker", "blocker_cb",
                                  "LV_EVENT_CLICKED", -1)
        s4 == [lv_obj_create(s3, "menu_drawer", "top")
                  EXCEPT !.menu.menu_drawer = "menu_drawer",
                         !.lvgl.drawer_x = -DRAWER_WIDTH]
    IN CreateNavButtons(s4, 1)

\* mutant: the function opens the menu whatever its state
minigui_menu_toggle_Open(s) ==
    IF s.menu.menu_drawer = NULL \/ s.menu.menu_blocker = NULL THEN s
    ELSE lv_anim_start(lv_obj_remove_flag(s, s.menu.menu_blocker, "HIDDEN"),
                       s.menu.menu_drawer, -DRAWER_WIDTH, 0)

minigui_menu_toggle(s) ==
    IF s.menu.menu_drawer = NULL \/ s.menu.menu_blocker = NULL THEN s
    ELSE LET is_hidden == lv_obj_has_flag(s, s.menu.menu_blocker, "HIDDEN")
         IN IF is_hidden
            THEN lv_anim_start(lv_obj_remove_flag(s, s.menu.menu_blocker, "HIDDEN"),
                               s.menu.menu_drawer, -DRAWER_WIDTH, 0)
            ELSE lv_anim_start(lv_obj_add_flag(s, s.menu.menu_blocker, "HIDDEN"),
                               s.menu.menu_drawer, 0, -DRAWER_WIDTH)

blocker_cb(s) == minigui_menu_toggle(s)

menu_btn_event_cb(s) == minigui_menu_toggle(s)

----------------------------------------------------------------------------
(* screens/screen_home.c *)

create_info_card(s, parent, title, value) ==
    LET card == "card_" \o title
        s1 == lv_obj_create(s, card, parent)
        s2 == lv_obj_create(s1, "lbl_title_" \o title, card)
        s3 == lv_label_set_text(s2, "lbl_title_" \o title, title)
        s4 == lv_obj_create(s3, "lbl_val_" \o title, card)
    IN lv_label_set_text(s4, "lbl_val_" \o title, value)

create_screen_home(s, parent) ==
    LET s1 == lv_obj_set_style(s, parent)
        s2 == lv_obj_create(s1, "cont", parent)
        s3 == create_info_card(s2, "cont", "Indoor", "72F")
        s4 == create_info_card(s3, "cont", "Outdoor", "85F")
    IN create_info_card(s4, "cont", "Status", "Good")

----------------------------------------------------------------------------
(* screens/screen_logs.c *)

minigui_set_log_provider(s, provider) ==
    [s EXCEPT !.logs.global_log_provider = provider]

clear_table_cells(s) ==
    IF s.logs.data_table = NULL THEN s
    ELSE LET row_count == lv_table_get_row_cnt(s, s.logs.data_table)
         IN lv_table_set_rows(s, s.logs.data_table,
                              [row \in 1..row_count |-> <<"", "", "", "">>])

mock_data ==
    << [src |-> "LVGL", lvl |-> "INFO", msg |-> "Standalone MiniGUI initialized"],
       [src |-> "USER", lvl |-> "DEBUG", msg |-> "Mock log provider active"],
       [src |-> "ESP", lvl |-> "INFO", msg |-> "System starting (simulator mode)"],
       [src |-> "USER", lvl |-> "WARN", msg |-> "External app_bridge not detected"],
       [src |-> "LVGL", lvl |-> "DEBUG", msg |-> "Table layout recalculated for 800px"],
       [src |-> "USER", lvl |-> "INFO", msg |-> "Iterating on standalone UI..."] >>

RECURSIVE MockLogs(_, _, _, _, _)
MockLogs(i, added, max_count, filter, now) ==
    IF ~(i <= Len(mock_data) /\ Len(added) < max_count) THEN added
    ELSE IF filter # NULL /\ filter # "ALL" /\ mock_data[i].src # filter
    THEN MockLogs(i + 1, added, max_count, filter, now)
    ELSE MockLogs(i + 1,
                  Append(added, [timestamp |-> now, source |-> mock_data[i].src,
                                 level |-> mock_data[i].lvl,
                                 message |-> mock_data[i].msg]),
                  max_count, filter, now)

\* mutant: the mock is compiled in whatever the build defines
internal_get_logs_Unconditional(bld, max_count, filter, now) ==
    MockLogs(1, << >>, max_count, filter, now)

\* internal_get_logs: the entries written to logs[0 .. added-1]; the mock is
\* compiled in only when MINIGUI_USE_MOCK_LOGS is defined
internal_get_logs(bld, max_count, filter, now) ==
    IF bld.MINIGUI_USE_MOCK_LOGS
    THEN MockLogs(1, << >>, max_count, filter, now)
    ELSE << >>

malloc(s, ok) ==
    IF ok THEN Log([s EXCEPT !.heap.log_buffers = @ + 1], "malloc", "logs")
    ELSE Log(s, "malloc_failed", "logs")

free(s) == Log([s EXCEPT !.heap.log_buffers = @ - 1], "free", "logs")

\* the program has stopped on an invalid access
Crash(s) == [s EXCEPT !.heap.crashed = TRUE]

\* mutant: the source and the level are written to each other's column
FillTable_Swapped(s, entries) ==
    lv_table_set_rows(s, s.logs.data_table,
                      [i \in 1..Len(entries) |->
                          <<entries[i].timestamp, entries[i].level,
                            entries[i].source, entries[i].message>>])

\* the loop of update_table_with_logs over logs[0 .. count-1]
FillTable(s, entries) ==
    lv_table_set_rows(s, s.logs.data_table,
                      [i \in 1..Len(entries) |->
                          <<entries[i].timestamp, entries[i].source,
                            entries[i].level, entries[i].message>>])

\* the "No logs" row written when count == 0
NoLogsRow(s, filter) ==
    LET dt == s.logs.data_table
        s1 == lv_table_set_row_cnt(s, dt, 1)
        s2 == lv_table_set_cell_value(s1, dt, 0, 0, "No logs")
        s3 == lv_table_set_cell_value(s2, dt, 0, 1, "for")
        s4 == lv_table_set_cell_value(s3, dt, 0, 2, "filter")
    IN lv_table_set_cell_value(s4, dt, 0, 3, IF filter # NULL THEN filter ELSE "ALL")

\* mutant: the "No logs" path returns without freeing the buffer
LoadLogs_LeakWhenEmpty(s, filter, env) ==
    LET dt == s.logs.data_table
        used == s.logs.global_log_provider # NULL
        s1 == IF used
              THEN Invoke(s, "logs", s.logs.global_log_provider,
                          <<MINIGUI_MAX_LOGS, filter>>, env.log_answer)
              ELSE Log(s, "call", "internal_get_logs")
        entries == IF used THEN env.log_answer
                   ELSE internal_get_logs(s.build, MINIGUI_MAX_LOGS, filter, env.now)
        count == Len(entries)
        s2 == lv_table_set_row_cnt(s1, dt, count)
        s3 == FillTable(s2, entries)
    IN IF count = 0 THEN NoLogsRow(s3, filter) ELSE free(s3)

\* update_table_with_logs between the allocation and the free; env.log_answer
\* is what a registered provider writes into the buffer
LoadLogs(s, filter, env) ==
    LET dt == s.logs.data_table
        used == s.logs.global_log_provider # NULL
        s1 == IF used
              THEN Invoke(s, "logs", s.logs.global_log_provider,
                          <<MINIGUI_MAX_LOGS, filter>>, env.log_answer)
              ELSE Log(s, "call", "internal_get_logs")
        entries == IF used THEN env.log_answer
                   ELSE internal_get_logs(s.build, MINIGUI_MAX_LOGS, filter, env.now)
        count == Len(entries)
        s2 == lv_table_set_row_cnt(s1, dt, count)
        s3 == FillTable(s2, entries)
        s4 == IF count = 0 THEN NoLogsRow(s3, filter) ELSE s3
    IN free(s4)

\* mutant: the result of malloc is not tested
update_table_with_logs_NoCheck(s, filter, env) ==
    IF s.logs.data_table = NULL THEN s
    ELSE IF Dangling(s, s.logs.data_table) /\ env.ub = "crash"
    THEN Crash(Stale(s, s.logs.data_table))
    ELSE LET dt == s.logs.data_table
             s1 == clear_table_cells(s)
             s2 == lv_table_set_row_cnt(s1, dt, 1)
             s3 == lv_table_set_cell_value(s2, dt, 0, 3, "Loading...")
             s4 == Log(s3, "call", "lv_refr_now")
             s5 == malloc(s4, env.malloc_ok)
         IN LoadLogs(s5, filter, env)

\* update_table_with_logs; env.malloc_ok says whether malloc returns a block,
\* env.ub what an access through a stale data_table does
update_table_with_logs(s, filter, env) ==
    IF s.logs.data_table = NULL THEN s
    ELSE IF Dangling(s, s.logs.data_table) /\ env.ub = "crash"
    THEN Crash(Stale(s, s.logs.data_table))
    ELSE LET dt == s.logs.data_table
             s1 == clear_table_cells(s)
             s2 == lv_table_set_row_cnt(s1, dt, 1)
             s3 == lv_table_set_cell_value(s2, dt, 0, 3, "Loading...")
             s4 == Log(s3, "call", "lv_refr_now")
             s5 == malloc(s4, env.malloc_ok)
         IN IF ~env.malloc_ok
            THEN lv_table_set_cell_value(lv_table_set_row_cnt(s5, dt, 1),
                                         dt, 0, 3, "Memory error")
            ELSE LoadLogs(s5, filter, env)

refresh_button_cb(s, env) ==
    LET filter_buf == IF s.logs.filter_dropdown # NULL
                      THEN lv_dropdown_get_selected_str(s, s.logs.filter_dropdown)
                      ELSE "ALL"
    IN update_table_with_logs(s, filter_buf, env)

\* filter_event_cb: the dropdown reports the option the user picked
filter_event_cb(s, dropdown, env) ==
    update_table_with_logs(s, lv_dropdown_get_selected_str(s, dropdown), env)

deferred_load_cb(s, env) ==
    lv_timer_del(update_table_with_logs(s, "ALL", env), "deferred_load_cb")

refresh_log_table(s, filter, env) ==
    update_table_with_logs(s, IF filter # NULL THEN filter ELSE "ALL", env)

\* calculate_table_layout; env.parent_width is lv_obj_get_width(log_screen_parent)
calculate_table_layout(s, env) ==
    IF s.logs.data_table = NULL \/ s.logs.log_screen_parent = NULL THEN s
    ELSE IF Dangling(s, s.logs.data_table) /\ env.ub = "crash"
    THEN Crash(Stale(s, s.logs.data_table))
    ELSE LET dt == s.logs.data_table
             parent_width == IF env.parent_width <= 0 THEN 800 ELSE env.parent_width
             available_width == parent_width - 10
             s1 == lv_table_set_col_width(s, dt, 0, 100)
             s2 == lv_table_set_col_width(s1, dt, 1, 80)
             s3 == lv_table_set_col_width(s2, dt, 2, 60)
         IN lv_table_set_col_width(s3, dt, 3, available_width - 240)

parent_size_changed_cb(s, env) == calculate_table_layout(s, env)

create_screen_logs(s, parent, env) ==
    LET s0 == lv_obj_set_style([s EXCEPT !.logs.log_screen_parent = parent], parent)
        s1 == lv_obj_create(s0, "header_cont", parent)
        s2 == lv_label_set_text(lv_obj_create(s1, "header_lbl", "header_cont"),
                                "header_lbl", "TIME | FROM | LVL | MESSAGE")
        s3 == [lv_obj_create(s2, "filter_dropdown", "header_cont")
                  EXCEPT !.logs.filter_dropdown = "filter_dropdown"]
        s4 == lv_dropdown_set_options(s3, "filter_dropdown",
                                      <<"ALL", "ESP", "LVGL", "USER">>)
        s5 == lv_obj_add_event_cb(s4, "filter_dropdown", "filter_event_cb",
                                  "LV_EVENT_VALUE_CHANGED", -1)
        s6 == lv_obj_create(s5, "refresh_btn", "header_cont")
        s7 == lv_obj_create(s6, "refresh_label", "refresh_btn")
        s8 == lv_obj_add_event_cb(s7, "refresh_btn", "refresh_button_cb",
                                  "LV_EVENT_CLICKED", -1)
        s9 == [lv_obj_create(s8, "data_table", parent)
                  EXCEPT !.logs.data_table = "data_table"]
        s10 == calculate_table_layout(s9, env)
        s11 == lv_table_set_row_cnt(s10, "data_table", 1)
        s12 == lv_table_set_cell_value(s11, "data_table", 0, 0, "Loading...")
        s13 == lv_table_set_cell_value(s12, "data_table", 0, 1, "")
        s14 == lv_table_set_cell_value(s13, "data_table", 0, 2, "")
        s15 == lv_table_set_cell_value(s14, "data_table", 0, 3, "Retrieving logs")
        s16 == lv_obj_add_event_cb(s15, parent, "parent_size_changed_cb",
                                   "LV_EVENT_SIZE_CHANGED", -1)
    IN lv_timer_create(s16, "deferred_load_cb")

----------------------------------------------------------------------------
(* screens/screen_settings.c *)

\* the loop of scan_wifi_event_cb: lv_dropdown_add_option(dd, networks[i].ssid, i)
\* for i = from .. count - 1
RECURSIVE AddNetworks(_, _, _, _)
AddNetworks(s, dd, networks, from) ==
    IF from >= Len(networks) THEN s
    ELSE AddNetworks(lv_dropdown_add_option(s, dd, networks[from + 1].ssid, from),
                     dd, networks, from + 1)

\* scan_wifi_event_cb; env.scan_answer is what a registered scan provider
\* answers.  The handler runs inside lv_timer_handler, whose nested call
\* returns at once.
scan_wifi_event_cb(s, env) ==
    LET s1 == lv_label_set_text(s, s.settings.lbl_scan, "Scanning...")
        s2 == lv_obj_add_state(s1, s.settings.btn_scan, "LV_STATE_DISABLED")
        s3 == minigui_scan_wifi(s2, 10, env.scan_answer)
        found == s3.trace.out
        s4 == lv_dropdown_clear_options(s3, s.settings.dd_ssid)
        s5 == AddNetworks(s4, s.settings.dd_ssid,
                          SubSeq(found.networks, 1, found.count), 0)
        s6 == IF found.count > 0
              THEN lv_dropdown_set_selected(s5, s.settings.dd_ssid, 0)
              ELSE lv_dropdown_add_option(s5, s.settings.dd_ssid,
                                          "No networks found", 0)
        s7 == lv_label_set_text(s6, s.settings.lbl_scan, "Scan")
    IN lv_obj_remove_state(s7, s.settings.btn_scan, "LV_STATE_DISABLED")

\* what save_wifi_event_cb collects: the selected option through ssid_buf[64]
\* into ssid[64], the text of the password field into password[128]
Credentials(s) ==
    LET ssid_buf == Take(lv_dropdown_get_selected_str(s, s.settings.dd_ssid), 63)
    IN [ssid |-> Take(ssid_buf, 63),
        password |-> Take(lv_textarea_get_text(s, s.settings.ta_pass), 127)]

\* mutant: the hint shown before a scan is saved as if it were a network
save_wifi_event_cb_NoHintTest(s) ==
    LET creds == Credentials(s)
    IN IF creds.ssid = "No networks found" \/ Len(creds.ssid) = 0
       THEN s
       ELSE minigui_save_wifi_credentials(s, creds)

save_wifi_event_cb(s) ==
    LET creds == Credentials(s)
    IN IF creds.ssid = "No networks found" \/ Len(creds.ssid) = 0
          \/ creds.ssid = "Scan to see networks..."
       THEN s
       ELSE minigui_save_wifi_credentials(s, creds)

\* kb_event_cb, registered for every event of the keyboard; env.ub says what
\* the write through a ta_pass whose widget was deleted does
kb_event_cb(s, code, keyboard, env) ==
    IF code \in {"LV_EVENT_READY", "LV_EVENT_CANCEL"}
    THEN LET s1 == lv_obj_add_flag(s, keyboard, "HIDDEN")
             ta == s.settings.ta_pass
         IN IF ta = NULL THEN s1
            ELSE IF ~Dangling(s1, ta) THEN lv_obj_remove_state(s1, ta, "FOCUSED")
            ELSE IF env.ub = "crash" THEN Crash(Stale(s1, ta))
            ELSE Stale(s1, ta)
    ELSE s

\* ta_event_cb, registered for LV_EVENT_FOCUSED of the password field
ta_event_cb(s, code, ta) ==
    IF code = "LV_EVENT_FOCUSED" /\ s.settings.kb # NULL
    THEN lv_obj_remove_flag(lv_keyboard_set_textarea(s, s.settings.kb, ta),
                            s.settings.kb, "HIDDEN")
    ELSE s

create_separator(s, parent, name) == lv_obj_create(s, name, parent)

create_screen_panel(s, parent) ==
    LET s1 == lv_label_set_text(lv_obj_create(s, "lbl_display", parent),
                                "lbl_display", "Display Settings")
        s2 == lv_label_set_text(lv_obj_create(s1, "lbl_bright", parent),
                                "lbl_bright", "Screen Brightness")
        s3 == lv_obj_create(s2, "slider", parent)
    IN lv_obj_add_event_cb(s3, "slider", "slider_event_cb",
                           "LV_EVENT_VALUE_CHANGED", -1)

\* the labels of the "Current Connection" section
StatusLabels(s, parent, net_status) ==
    IF net_status.connected
    THEN LET s1 == lv_label_set_text(lv_obj_create(s, "lbl_ssid_status", parent),
                       "lbl_ssid_status", "SSID: " \o net_status.ssid)
             s2 == lv_label_set_text(lv_obj_create(s1, "lbl_ip", parent),
                       "lbl_ip", "IP Address: " \o net_status.ip_address)
         IN lv_label_set_text(lv_obj_create(s2, "lbl_mac", parent),
                       "lbl_mac", "MAC Address: " \o net_status.mac_address)
    ELSE lv_label_set_text(lv_obj_create(s, "lbl_disconnected", parent),
                           "lbl_disconnected", "Not connected")

create_network_panel(s, parent, env) ==
    LET s1 == lv_label_set_text(lv_obj_create(s, "lbl_network", parent),
                                "lbl_network", "Network Configuration")
        s2 == lv_label_set_text(lv_obj_create(s1, "lbl_status_hdr", parent),
                                "lbl_status_hdr", "Current Connection")
        s3 == minigui_get_network_status(s2, env.net_answer)
        s4 == StatusLabels(s3, parent, s3.trace.out)
        s5 == create_separator(s4, parent, "sep_network")
        s6 == lv_label_set_text(lv_obj_create(s5, "lbl_connect_hdr", parent),
                                "lbl_connect_hdr", "Connect to Network")
        s7 == lv_label_set_text(lv_obj_create(s6, "lbl_ssid", parent),
                                "lbl_ssid", "WiFi Network (SSID)")
        s8 == lv_obj_create(s7, "ssid_row", parent)
        s9 == [lv_obj_create(s8, "dd_ssid", "ssid_row")
                  EXCEPT !.settings.dd_ssid = "dd_ssid"]
        s10 == lv_dropdown_set_options(s9, "dd_ssid", <<"Scan to see networks...">>)
        s11 == [lv_obj_create(s10, "btn_scan", "ssid_row")
                  EXCEPT !.settings.btn_scan = "btn_scan"]
        s12 == [lv_obj_create(s11, "lbl_scan", "btn_scan")
                  EXCEPT !.settings.lbl_scan = "lbl_scan"]
        s13 == lv_label_set_text(s12, "lbl_scan", "Scan")
        s14 == lv_obj_add_event_cb(s13, "btn_scan", "scan_wifi_event_cb",
                                   "LV_EVENT_CLICKED", -1)
        s15 == lv_label_set_text(lv_obj_create(s14, "lbl_pass", parent),
                                 "lbl_pass", "Password")
        s16 == [lv_obj_create(s15, "ta_pass", parent)
                  EXCEPT !.settings.ta_pass = "ta_pass"]
        s17 == lv_obj_add_event_cb(s16, "ta_pass", "ta_event_cb",
                                   "LV_EVENT_FOCUSED", -1)
        s18 == lv_obj_create(s17, "btn_save", parent)
        s19 == lv_label_set_text(lv_obj_create(s18, "lbl_save", "btn_save"),
                                 "lbl_save", "Save WiFi")
    IN lv_obj_add_event_cb(s19, "btn_save", "save_wifi_event_cb",
                           "LV_EVENT_CLICKED", -1)

create_system_panel(s, parent) ==
    LET s1 == lv_label_set_text(lv_obj_create(s, "lbl_system", parent),
                                "lbl_system", "System Management")
        s2 == lv_obj_create(s1, "btn_reboot", parent)
        s3 == lv_label_set_text(lv_obj_create(s2, "lbl_reboot", "btn_reboot"),
                                "lbl_reboot", "Reboot Device")
        s4 == lv_obj_add_event_cb(s3, "btn_reboot", "reboot_event_cb",
                                  "LV_EVENT_CLICKED", -1)
        s5 == create_separator(s4, parent, "sep_system")
        s6 == lv_label_set_text(lv_obj_create(s5, "lbl_fw_hdr", parent),
                                "lbl_fw_hdr", "Firmware")
        s7 == [lv_obj_create(s6, "lbl_fw_version", parent)
                  EXCEPT !.settings.lbl_fw_version = "lbl_fw_version"]
        s8 == lv_label_set_text(s7, "lbl_fw_version", "Current Version: v1.0.0")
        s9 == lv_obj_create(s8, "btn_check", parent)
        s10 == lv_label_set_text(lv_obj_create(s9, "lbl_check", "btn_check"),
                                 "lbl_check", "Check for Updates")
        s11 == lv_obj_add_event_cb(s10, "btn_check", "check_firmware_event_cb",
                                   "LV_EVENT_CLICKED", -1)
        s12 == [lv_obj_create(s11, "lbl_fw_status", parent)
                  EXCEPT !.settings.lbl_fw_status = "lbl_fw_status"]
        s13 == lv_label_set_text(s12, "lbl_fw_status", "")
        s14 == [lv_obj_create(s13, "btn_fw_update", parent)
                  EXCEPT !.settings.btn_fw_update = "btn_fw_update"]
        s15 == lv_label_set_text(lv_obj_create(s14, "lbl_fw", "btn_fw_update"),
                                 "lbl_fw", "Install Update")
        s16 == lv_obj_add_event_cb(s15, "btn_fw_update", "firmware_update_event_cb",
                                   "LV_EVENT_CLICKED", -1)
    IN lv_obj_add_flag(s16, "btn_fw_update", "HIDDEN")

TwoDigits(n) == IF n < 10 THEN "0" \o ToString(n) ELSE ToString(n)

\* (used * 100) / total, printed with %d; the sizes used here keep used * 100
\* below the wrap of uint32_t
Percent(used, total) == (used * 100) \div total

\* mutant: the timer callback leaves the labels as they are
monitor_timer_cb_Idle(s, env) == s

\* monitor_timer_cb; env.stats_answer is what a registered stats provider
\* writes, env.ticks the readings of lv_tick_get() the mock makes
monitor_timer_cb(s, env) ==
    IF s.settings.lbl_voltage = NULL \/ s.settings.lbl_cpu = NULL
       \/ s.settings.lbl_flash = NULL \/ s.settings.lbl_ram = NULL
    THEN s
    ELSE LET s1 == minigui_get_system_stats(s, env.stats_answer, env.ticks)
             stats == s1.trace.out
             s2 == lv_label_set_text(s1, s.settings.lbl_voltage,
                       "Voltage: " \o ToString(stats.voltage_cV \div 100) \o "."
                       \o TwoDigits(stats.voltage_cV % 100) \o "V")
             s3 == lv_label_set_text(s2, s.settings.lbl_cpu,
                       "CPU Usage: " \o ToString(stats.cpu_usage) \o "%")
             s4 == lv_label_set_text(s3, s.settings.lbl_flash,
                       "Flash: " \o ToString(stats.flash_used_kb) \o " / "
                       \o ToString(stats.flash_total_kb) \o " KB ("
                       \o ToString(Percent(stats.flash_used_kb, stats.flash_total_kb))
                       \o "%)")
         IN lv_label_set_text(s4, s.settings.lbl_ram,
                       "RAM: " \o ToString(stats.ram_used_kb) \o " / "
                       \o ToString(stats.ram_total_kb) \o " KB ("
                       \o ToString(Percent(stats.ram_used_kb, stats.ram_total_kb))
                       \o "%)")

create_monitor_panel(s, parent, env) ==
    LET s1 == lv_obj_create(s, "monitor_cont", parent)
        s2 == lv_obj_add_event_cb(s1, "monitor_cont", "monitor_panel_delete_cb",
                                  "LV_EVENT_DELETE", -1)
        s3 == lv_label_set_text(lv_obj_create(s2, "lbl_monitor", "monitor_cont"),
                                "lbl_monitor", "System Monitor")
        s4 == [lv_obj_create(s3, "lbl_voltage", "monitor_cont")
                  EXCEPT !.settings.lbl_voltage = "lbl_voltage"]
        s5 == lv_label_set_text(s4, "lbl_voltage", "Voltage: --")
        s6 == create_separator(s5, "monitor_cont", "sep_monitor_1")
        s7 == [lv_obj_create(s6, "lbl_cpu", "monitor_cont")
                  EXCEPT !.settings.lbl_cpu = "lbl_cpu"]
        s8 == lv_label_set_text(s7, "lbl_cpu", "CPU Usage: --")
        s9 == create_separator(s8, "monitor_cont", "sep_monitor_2")
        s10 == [lv_obj_create(s9, "lbl_flash", "monitor_cont")
                  EXCEPT !.settings.lbl_flash = "lbl_flash"]
        s11 == lv_label_set_text(s10, "lbl_flash", "Flash: --")
        s12 == create_separator(s11, "monitor_cont", "sep_monitor_3")
        s13 == [lv_obj_create(s12, "lbl_ram", "monitor_cont")
                  EXCEPT !.settings.lbl_ram = "lbl_ram"]
        s14 == lv_label_set_text(s13, "lbl_ram", "RAM: --")
        s15 == IF s14.settings.monitor_timer = NULL
               THEN [lv_timer_create(s14, "monitor_timer_cb")
                        EXCEPT !.settings.monitor_timer = "monitor_timer_cb"]
               ELSE s14
    IN monitor_timer_cb(s15, env)

\* mutant: the new panel is added to what the content pane already holds
switch_category_NoClean(s, cat, env) ==
    LET s2 == [s EXCEPT !.settings.current_category = cat]
        pane == s2.settings.content_pane
    IN CASE cat = SETTINGS_CAT_SCREEN -> create_screen_panel(s2, pane)
         [] cat = SETTINGS_CAT_NETWORK -> create_network_panel(s2, pane, env)
         [] cat = SETTINGS_CAT_SYSTEM -> create_system_panel(s2, pane)
         [] cat = SETTINGS_CAT_MONITOR -> create_monitor_panel(s2, pane, env)
         [] OTHER -> s2

switch_category(s, cat, env) ==
    LET s1 == [s EXCEPT !.settings.current_category = cat]
        s2 == lv_obj_clean(s1, s1.settings.content_pane)
        pane == s2.settings.content_pane
    IN CASE cat = SETTINGS_CAT_SCREEN -> create_screen_panel(s2, pane)
         [] cat = SETTINGS_CAT_NETWORK -> create_network_panel(s2, pane, env)
         [] cat = SETTINGS_CAT_SYSTEM -> create_system_panel(s2, pane)
         [] cat = SETTINGS_CAT_MONITOR -> create_monitor_panel(s2, pane, env)
         [] OTHER -> s2

category_event_cb(s, user_data, env) == switch_category(s, user_data, env)

RECURSIVE CreateCategoryButtons(_, _)
CreateCategoryButtons(s, i) ==
    IF i >= SETTINGS_CAT_COUNT THEN s
    ELSE LET btn == "cat_btn_" \o ToString(i)
             s1 == lv_obj_create(s, btn, "nav_pane")
             s2 == lv_obj_create(s1, "cat_lbl_" \o ToString(i), btn)
             s3 == lv_obj_add_event_cb(s2, btn, "category_event_cb",
                                       "LV_EVENT_CLICKED", i)
         IN CreateCategoryButtons(s3, i + 1)

create_screen_settings(s, parent, env) ==
    LET s1 == lv_obj_add_event_cb(s, parent, "settings_screen_event_cb",
                                  "LV_EVENT_DELETE", -1)
        s2 == lv_obj_create(lv_obj_set_style(s1, parent), "main_cont", parent)
        s3 == lv_obj_create(s2, "nav_pane", "main_cont")
        s4 == CreateCategoryButtons(s3, 0)
        s5 == [lv_obj_create(s4, "content_pane", "main_cont")
                  EXCEPT !.settings.content_pane = "content_pane"]
        s6 == [lv_obj_create(s5, "kb", parent) EXCEPT !.settings.kb = "kb"]
        s7 == lv_obj_add_flag(s6, "kb", "HIDDEN")
        s8 == lv_obj_add_event_cb(s7, "kb", "kb_event_cb", "LV_EVENT_ALL", -1)
    IN switch_category(s8, SETTINGS_CAT_SCREEN, env)

----------------------------------------------------------------------------
(* minigui.c: the shell *)

titles == <<"Home", "System Logs", "Settings">>

\* screen_creators[screen_type](parent)
screen_creators(s, screen_type, parent, env) ==
    CASE screen_type = MINIGUI_SCREEN_HOME ->
             create_screen_home(Log(s, "creator", "create_screen_home"), parent)
      [] screen_type = MINIGUI_SCREEN_LOGS ->
             create_screen_logs(Log(s, "creator", "create_screen_logs"), parent, env)
      [] screen_type = MINIGUI_SCREEN_SETTINGS ->
             create_screen_settings(Log(s, "creator", "create_screen_settings"),
                                    parent, env)

\* history: minigui_switch_screen was entered with screen_type
Called(s, screen_type) ==
    [Log(s, "call", "minigui_switch_screen")
        EXCEPT !.trace.switches = Append(@, screen_type)]

\* mutant: the content area is not cleaned before the creator runs
SwitchBody_NoClean(s, screen_type, env) ==
    LET s1 == lv_lock(s)
        s3 == lv_obj_set_style(s1, s1.shell.content_area)
        s4 == lv_label_set_text(s3, s3.shell.lbl_title, titles[screen_type + 1])
        s5 == screen_creators(s4, screen_type, s4.shell.content_area, env)
    IN lv_unlock(s5)

SwitchBody(s, screen_type, env) ==
    LET s1 == lv_lock(s)
        s2 == lv_obj_clean(s1, s1.shell.content_area)
        s3 == lv_obj_set_style(s2, s2.shell.content_area)
        s4 == lv_label_set_text(s3, s3.shell.lbl_title, titles[screen_type + 1])
        s5 == screen_creators(s4, screen_type, s4.shell.content_area, env)
    IN lv_unlock(s5)

\* mutant: the lock is taken before the guard and released on the early return
minigui_switch_screen_LockFirst(s, screen_type, env) ==
    IF screen_type >= MINIGUI_SCREEN_COUNT \/ s.shell.content_area = NULL
    THEN lv_unlock(lv_lock(Called(s, screen_type)))
    ELSE SwitchBody(Called(s, screen_type), screen_type, env)

minigui_switch_screen(s, screen_type, env) ==
    IF screen_type >= MINIGUI_SCREEN_COUNT \/ s.shell.content_area = NULL
    THEN Called(s, screen_type)
    ELSE SwitchBody(Called(s, screen_type), screen_type, env)

\* minigui_init between lv_lock() and lv_unlock()
InitBody(s, env) ==
    LET s1 == minigui_menu_init(s)
        s2 == lv_obj_set_style(s1, "screen")
        s3 == [lv_obj_create(s2, "main_container", "screen")
                  EXCEPT !.shell.main_container = "main_container"]
        s4 == [lv_obj_create(s3, "status_bar", "main_container")
                  EXCEPT !.shell.status_bar = "status_bar"]
        s5 == lv_obj_create(s4, "btn_menu", "status_bar")
        s6 == lv_obj_add_event_cb(s5, "btn_menu", "sync_square_size_cb",
                                  "LV_EVENT_SIZE_CHANGED", -1)
        s7 == lv_obj_create(s6, "label_menu", "btn_menu")
        s8 == lv_obj_add_event_cb(s7, "btn_menu", "menu_btn_event_cb",
                                  "LV_EVENT_CLICKED", -1)
        s9 == [lv_obj_create(s8, "lbl_title", "status_bar")
                  EXCEPT !.shell.lbl_title = "lbl_title"]
        s10 == lv_label_set_text(s9, "lbl_title", "Dashboard")
        s11 == [lv_obj_create(s10, "lbl_clock", "status_bar")
                  EXCEPT !.shell.lbl_clock = "lbl_clock"]
        s12 == update_clock_cb(s11, env)
        s13 == lv_timer_create(s12, "update_clock_cb")
    IN [lv_obj_create(s13, "content_area", "main_container")
           EXCEPT !.shell.content_area = "content_area"]

\* mutant: minigui_init does not switch to the Home screen
minigui_init_NoSwitch(s, env) ==
    LET s1 == lv_lock(s)
        s2 == InitBody(s1, env)
    IN lv_unlock(s2)

minigui_init(s, env) ==
    LET s1 == lv_lock(s)
        s2 == InitBody(s1, env)
        s3 == lv_unlock(s2)
    IN minigui_switch_screen(s3, MINIGUI_SCREEN_HOME, env)

(* minigui_menu.c: a click on a drawer button *)

nav_btn_cb(s, user_data, env) ==
    LET target == user_data
        s1 == minigui_switch_screen(s, target, env)
    IN minigui_menu_toggle(s1)

----------------------------------------------------------------------------
(* The environment: what the callers pass and what the outside answers *)

Hooks == {"brightness", "time", "wifi_save", "wifi_scan", "system_stats",
          "network_status", "logs"}

\* the strings a log filter is given as; "WIFI" names no source of the mock
Filters == {"ALL", "ESP", "LVGL", "USER"}

\* the filters the application passes: none, the two kinds the dropdown
\* offers, and a source no entry has
ApiFilters == {NULL, "ALL", "LVGL", "WIFI"}

ParentWidths == {0, 800}

LogSources == <<"ESP", "LVGL", "USER">>

\* the i-th entry (from 0) a log provider writes
ProvidedEntry(i) ==
    [timestamp |-> "10:00:" \o TwoDigits(i), source |-> LogSources[(i % 3) + 1],
     level |-> IF i % 2 = 0 THEN "INFO" ELSE "WARN",
     message |-> "message " \o ToString(i)]

ProvidedLogs(n) == [i \in 1..n |-> ProvidedEntry(i - 1)]

\* what a log provider may return: nothing, MaxProvided entries, a full buffer
LogAnswers == {ProvidedLogs(n) : n \in {0, MaxProvided, MINIGUI_MAX_LOGS}}

NetAnswers ==
    { [connected |-> TRUE, ssid |-> "Plant_AP", ip_address |-> "10.0.0.7",
       mac_address |-> "02:00:00:00:00:01"],
      [connected |-> FALSE, ssid |-> "", ip_address |-> "", mac_address |-> ""] }

StatsAnswers ==
    { [voltage_cV |-> 330, cpu_usage |-> 7, flash_used_kb |-> 1024,
       flash_total_kb |-> 8192, ram_used_kb |-> 200, ram_total_kb |-> 512] }

EnvDefault ==
    [time_out |-> "12:00:00", libc_time |-> "Sat 02/07 12:08:45",
     parent_width |-> 800, malloc_ok |-> TRUE, log_answer |-> << >>,
     now |-> "12:08:45", ub |-> "silent",
     net_answer |-> CHOOSE a \in NetAnswers : a.connected,
     stats_answer |-> CHOOSE a \in StatsAnswers : TRUE, ticks |-> <<0, 0>>,
     scan_answer |-> << >>]

\* the same, with the answers the registered status and stats providers
\* would give now
EnvNow ==
    [EnvDefault EXCEPT !.net_answer = world.net, !.stats_answer = world.stats]

----------------------------------------------------------------------------
(* Initial state: the program is loaded and nothing has run *)

Init ==
    /\ build \in [MINIGUI_USE_MOCK_LOGS : BOOLEAN]
    /\ shell = [main_container |-> NULL, status_bar |-> NULL, content_area |-> NULL,
                lbl_title |-> NULL, lbl_clock |-> NULL,
                brightness_cb |-> NULL, global_time_provider |-> NULL,
                wifi_save_cb |-> NULL, wifi_scan_provider |-> NULL,
                system_stats_provider |-> NULL, network_status_provider |-> NULL]
    /\ menu = [menu_drawer |-> NULL, menu_blocker |-> NULL]
    /\ logs = [data_table |-> NULL, filter_dropdown |-> NULL,
               log_screen_parent |-> NULL, global_log_provider |-> NULL]
    /\ settings = [content_pane |-> NULL, kb |-> NULL, dd_ssid |-> NULL,
                   ta_pass |-> NULL, btn_scan |-> NULL, lbl_scan |-> NULL,
                   monitor_timer |-> NULL, lbl_voltage |-> NULL, lbl_cpu |-> NULL,
                   lbl_flash |-> NULL, lbl_ram |-> NULL, lbl_fw_version |-> NULL,
                   lbl_fw_status |-> NULL, btn_fw_update |-> NULL,
                   update_available |-> FALSE,
                   current_category |-> SETTINGS_CAT_SCREEN]
    /\ lvgl = [tree |-> {}, text |-> << >>, flags |-> {}, cbs |-> {},
               options |-> << >>, selected |-> << >>,
               timers |-> [update_clock_cb |-> 0, deferred_load_cb |-> 0,
                           monitor_timer_cb |-> 0],
               lock_depth |-> 0, lock_owner |-> NULL,
               table |-> << >>, col_width |-> <<0, 0, 0, 0>>,
               drawer_x |-> 0, anim |-> << >>, last_anim |-> << >>]
    /\ heap = [log_buffers |-> 0, crashed |-> FALSE]
    /\ tasks = [t \in Tasks |-> [pc |-> "idle", screen_type |-> -1]]
    /\ world = [net |-> EnvDefault.net_answer, stats |-> EnvDefault.stats_answer]
    /\ trace = [op |-> "none", arg |-> -1, thread |-> NULL, log |-> << >>,
                switches |-> << >>, calls |-> << >>, out |-> << >>,
                registered |-> [h \in Hooks |-> NULL], replaced |-> {},
                nreg |-> 0]

Running == ~heap.crashed

\* a call of the public API from an application task
Api(op, arg) == Enter(Machine, op, arg, "app")

\* the toolkit's loop runs a handler: lv_timer_handler holds the lock around it
Ui(op, arg) == lv_lock(Enter(Machine, op, arg, "ui"))

\* creating the Logs screen arms one more deferred-load timer
MayCreate(screen_type) ==
    (screen_type = MINIGUI_SCREEN_LOGS /\ shell.content_area # NULL)
        => lvgl.timers.deferred_load_cb < MaxLoadTimers

----------------------------------------------------------------------------
(* Actions: one per entry point of the program *)

\* minigui_init(), called once at startup
ApiInit ==
    /\ Running /\ shell.main_container = NULL
    /\ Commit(minigui_init(Api("minigui_init", -1), EnvDefault))

\* minigui_switch_screen() called by the application with an id of screen_types
SwitchScreen(screen_types, widths) ==
    /\ Running
    /\ \E screen_type \in screen_types, w \in widths :
          /\ MayCreate(screen_type)
          /\ Commit(minigui_switch_screen(Api("minigui_switch_screen", screen_type),
                        screen_type, [EnvDefault EXCEPT !.parent_width = w]))

ApiSwitchScreen == SwitchScreen(0..MaxScreenArg, ParentWidths)

ApiShowLogs == SwitchScreen({MINIGUI_SCREEN_LOGS}, {800})

ApiShowHome == SwitchScreen({MINIGUI_SCREEN_HOME}, {800})

\* history: the application registered cb on hook, in place of the callback
\* registered there before; replaced holds the callbacks that were registered
\* on a hook once and are not the one registered there now
Registered(s, hook, cb) ==
    LET old == s.trace.registered[hook]
    IN [s EXCEPT !.trace.registered[hook] = cb,
                 !.trace.replaced =
                     (@ \ {<<hook, cb>>})
                         \cup (IF old # NULL /\ old # cb THEN {<<hook, old>>} ELSE {}),
                 !.trace.nreg = @ + 1]

MayRegister == trace.nreg < MaxRegistrations

Registrable == Callbacks \cup {NULL}

ApiSetTimeProvider ==
    /\ Running /\ MayRegister
    /\ \E provider \in Registrable :
          Commit(Registered(minigui_set_time_provider(
                     Api("minigui_set_time_provider", provider), provider, EnvDefault),
                 "time", provider))

\* the answers of the outside that matter to a log refresh in this state
MallocChoices == IF logs.data_table # NULL THEN BOOLEAN ELSE {TRUE}

UbChoices ==
    IF Dangling(Machine, logs.data_table) THEN {"silent", "crash"} ELSE {"silent"}

AnswerChoices ==
    IF logs.global_log_provider # NULL THEN LogAnswers ELSE {<< >>}

\* malloc returns a block and the provider, if any, gives one of answers, or
\* malloc fails and no answer is asked for
LogEnvsOver(answers) ==
    {[EnvDefault EXCEPT !.ub = ub, !.log_answer = answer] :
        ub \in UbChoices, answer \in answers}
    \cup {[EnvDefault EXCEPT !.malloc_ok = ok, !.ub = ub] :
              ub \in UbChoices, ok \in MallocChoices \ {TRUE}}

LogEnvs == LogEnvsOver(AnswerChoices)

\* refresh_log_table() called by the application with a filter of filters
RefreshLogTable(filters, envs) ==
    /\ Running
    /\ \E filter \in filters, env \in envs :
          Commit(refresh_log_table(Api("refresh_log_table", filter), filter, env))

ApiRefreshLogTable == RefreshLogTable(ApiFilters, LogEnvs)

ApiRefreshLogs ==
    RefreshLogTable({NULL, "ESP"},
                    LogEnvsOver(IF logs.global_log_provider # NULL
                                THEN {ProvidedLogs(1)} ELSE {<< >>}))

\* a click on a drawer button, which is on screen while the drawer is
ClickNav ==
    /\ Running
    /\ lvgl.drawer_x > -DRAWER_WIDTH
    /\ \E r \in lvgl.cbs :
          /\ r[2] = "nav_btn_cb" /\ r[3] = "LV_EVENT_CLICKED"
          /\ MayCreate(r[4])
          /\ Commit(lv_unlock(nav_btn_cb(Ui("nav_btn_cb", r[1]), r[4], EnvDefault)))

\* minigui_menu_toggle() called by the application
ApiMenuToggle ==
    /\ Running
    /\ Commit(minigui_menu_toggle(Api("minigui_menu_toggle", -1)))

\* a click on the hamburger button, which the full-screen blocker covers
\* while it is visible
ClickHamburger ==
    /\ Running
    /\ <<"btn_menu", "menu_btn_event_cb", "LV_EVENT_CLICKED", -1>> \in lvgl.cbs
    /\ lv_obj_has_flag(Machine, "menu_blocker", "HIDDEN")
    /\ Commit(lv_unlock(menu_btn_event_cb(Ui("menu_btn_event_cb", -1))))

ClickBlocker ==
    /\ Running
    /\ <<"menu_blocker", "blocker_cb", "LV_EVENT_CLICKED", -1>> \in lvgl.cbs
    /\ ~lv_obj_has_flag(Machine, "menu_blocker", "HIDDEN")
    /\ Commit(lv_unlock(blocker_cb(Ui("blocker_cb", -1))))

\* the toolkit advances the drawer animation: half way, then to its end value
AnimStep ==
    /\ Running
    /\ lvgl.anim # << >>
    /\ LET mid == (lvgl.anim[1] + lvgl.anim[2]) \div 2
           nxt == IF lvgl.drawer_x = lvgl.anim[1] THEN mid ELSE lvgl.anim[2]
       IN lvgl' = [lvgl EXCEPT !.drawer_x = nxt,
                               !.anim = IF nxt = lvgl.anim[2] THEN << >> ELSE @]
    /\ trace' = Enter(Machine, "anim", -1, "ui").trace
    /\ UNCHANGED <<build, shell, menu, logs, settings, heap, tasks, world>>

\* the 1-second clock timer
ClockTick ==
    /\ Running
    /\ lvgl.timers.update_clock_cb > 0
    /\ Commit(lv_unlock(update_clock_cb(Ui("update_clock_cb", -1), EnvDefault)))

\* the 100 ms one-shot timer armed by create_screen_logs
DeferredLoad ==
    /\ Running
    /\ lvgl.timers.deferred_load_cb > 0
    /\ \E env \in LogEnvs :
          Commit(lv_unlock(deferred_load_cb(Ui("deferred_load_cb", -1), env)))

ClickRefresh ==
    /\ Running
    /\ \E r \in lvgl.cbs, env \in LogEnvs :
          /\ r[2] = "refresh_button_cb"
          /\ Commit(lv_unlock(refresh_button_cb(Ui("refresh_button_cb", -1), env)))

\* the user picks an option of the filter dropdown
PickFilter ==
    /\ Running
    /\ \E r \in lvgl.cbs, sel \in 0..3, env \in LogEnvs :
          /\ r[2] = "filter_event_cb"
          /\ Commit(lv_unlock(filter_event_cb(
                        lv_dropdown_set_selected(Ui("filter_event_cb", sel), r[1], sel),
                        r[1], env)))

\* the content area is resized
SizeChanged ==
    /\ Running
    /\ \E r \in lvgl.cbs, w \in ParentWidths, ub \in UbChoices :
          /\ r[2] = "parent_size_changed_cb"
          /\ Commit(lv_unlock(parent_size_changed_cb(Ui("parent_size_changed_cb", w),
                        [EnvDefault EXCEPT !.parent_width = w, !.ub = ub])))

ClickCategory ==
    /\ Running
    /\ \E r \in lvgl.cbs :
          /\ r[2] = "category_event_cb"
          /\ Commit(lv_unlock(category_event_cb(Ui("category_event_cb", r[4]), r[4],
                                                EnvNow)))

\* the 1-second timer of the Monitor panel
MonitorTick ==
    /\ Running
    /\ lvgl.timers.monitor_timer_cb > 0
    /\ \E s \in {Ui("monitor_timer_cb", -1)} :
          \E done \in {lv_unlock(monitor_timer_cb(s, EnvNow))} : Commit(done)

ApiRegisterBrightnessCb ==
    /\ Running /\ MayRegister
    /\ \E cb \in Registrable :
          Commit(Registered(minigui_register_brightness_cb(
                     Api("minigui_register_brightness_cb", cb), cb), "brightness", cb))

ApiRegisterWifiSaveCb ==
    /\ Running /\ MayRegister
    /\ \E cb \in Registrable :
          Commit(Registered(minigui_register_wifi_save_cb(
                     Api("minigui_register_wifi_save_cb", cb), cb), "wifi_save", cb))

ApiRegisterWifiScanProvider ==
    /\ Running /\ MayRegister
    /\ \E cb \in Registrable :
          Commit(Registered(minigui_register_wifi_scan_provider(
                     Api("minigui_register_wifi_scan_provider", cb), cb),
                 "wifi_scan", cb))

ApiRegisterSystemStatsProvider ==
    /\ Running /\ MayRegister
    /\ \E cb \in Registrable :
          Commit(Registered(minigui_register_system_stats_provider(
                     Api("minigui_register_system_stats_provider", cb), cb),
                 "system_stats", cb))

ApiRegisterNetworkStatusProvider ==
    /\ Running /\ MayRegister
    /\ \E cb \in Registrable :
          Commit(Registered(minigui_register_network_status_provider(
                     Api("minigui_register_network_status_provider", cb), cb),
                 "network_status", cb))

ApiSetLogProvider ==
    /\ Running /\ MayRegister
    /\ \E provider \in Registrable :
          Commit(Registered(minigui_set_log_provider(
                     Api("minigui_set_log_provider", provider), provider),
                 "logs", provider))

BrightnessSamples == {0, 255}

CredSamples == {[ssid |-> "Plant_AP", password |-> "secret"]}

\* what a scan provider asked for at most max_count networks may answer
ScanAnswers(max_count) ==
    {[count |-> n,
      networks |-> [i \in 1..n |-> [ssid |-> "AP_" \o ToString(i), rssi |-> -40 - i]]] :
        n \in {IF max_count < 2 THEN max_count ELSE 2}}

ScanCounts == {0, 2, MaxScanCount}

TickSamples == {<<0, 0>>, <<99, 139>>}

ApiSetBrightness ==
    /\ Running
    /\ \E brightness \in BrightnessSamples :
          Commit(minigui_set_brightness(Api("minigui_set_brightness", brightness),
                                        brightness))

ApiSaveWifiCredentials ==
    /\ Running
    /\ \E creds \in CredSamples :
          Commit(minigui_save_wifi_credentials(
                     Api("minigui_save_wifi_credentials", creds), creds))

ApiScanWifi ==
    /\ Running
    /\ \E max_count \in ScanCounts :
          \E answer \in IF shell.wifi_scan_provider # NULL
                        THEN ScanAnswers(max_count) ELSE {<< >>} :
              Commit(minigui_scan_wifi(Api("minigui_scan_wifi", max_count),
                                       max_count, answer))

ApiGetSystemStats ==
    /\ Running
    /\ \E answer \in StatsAnswers,
          ticks \in IF shell.system_stats_provider # NULL
                    THEN {<<0, 0>>} ELSE TickSamples :
          Commit(minigui_get_system_stats(Api("minigui_get_system_stats", ticks),
                                          answer, ticks))

ApiGetNetworkStatus ==
    /\ Running
    /\ \E answer \in IF shell.network_status_provider # NULL
                     THEN NetAnswers ELSE {MockNetworkStatus} :
          Commit(minigui_get_network_status(Api("minigui_get_network_status", -1),
                                            answer))

RECURSIVE Chars(_, _)
\* the string of n characters c
Chars(c, n) ==
    IF n = 0 THEN ""
    ELSE IF n = 1 THEN c
    ELSE Chars(c, n \div 2) \o Chars(c, n - (n \div 2))

\* an SSID that fills the 64 bytes of its field
LongSsid == Chars("S", 63)

\* what a scan provider asked for 10 networks may answer: nothing, a hidden
\* network, two networks, and networks named like the hints of the dropdown
SsidAnswers ==
    { << >>, <<"">>, <<"Plant_AP", LongSsid>>,
      <<"No networks found", "Scan to see networks...">> }

WifiScanAnswers ==
    {[count |-> Len(ssids),
      networks |-> [i \in 1..Len(ssids) |-> [ssid |-> ssids[i], rssi |-> -40 - i]]] :
        ssids \in SsidAnswers}

PasswordSamples == {"secret", Chars("p", MaxPasswordLen)}

ApiShowSettings == SwitchScreen({MINIGUI_SCREEN_SETTINGS}, {800})

\* a click on the Scan button of the Network panel
ClickScan ==
    /\ Running
    /\ \E r \in lvgl.cbs :
          /\ r[2] = "scan_wifi_event_cb"
          /\ \E answer \in IF shell.wifi_scan_provider # NULL
                            THEN WifiScanAnswers ELSE {<< >>} :
                Commit(lv_unlock(scan_wifi_event_cb(Ui("scan_wifi_event_cb", -1),
                           [EnvDefault EXCEPT !.scan_answer = answer])))

\* the user picks an option of the SSID dropdown; no handler of the program
\* is registered for it
PickSsid ==
    /\ Running
    /\ IsLive(Machine, settings.dd_ssid)
    /\ \E sel \in 0..(Len(lvgl.options[settings.dd_ssid]) - 1) :
          /\ sel # lvgl.selected[settings.dd_ssid]
          /\ Commit(lv_unlock(lv_dropdown_set_selected(Ui("lv_dropdown", sel),
                                                       settings.dd_ssid, sel)))

\* the user types a password into the password field
TypePassword ==
    /\ Running
    /\ IsLive(Machine, settings.ta_pass)
    /\ \E txt \in PasswordSamples :
          /\ txt # TextOf(Machine, settings.ta_pass)
          /\ Commit(lv_unlock(lv_label_set_text(Ui("lv_textarea", -1),
                                                settings.ta_pass, txt)))

\* the user touches the password field: the toolkit marks it focused and
\* sends LV_EVENT_FOCUSED
FocusPassword ==
    /\ Running
    /\ \E r \in lvgl.cbs :
          /\ r[2] = "ta_event_cb"
          /\ ~lv_obj_has_flag(Machine, r[1], "FOCUSED")
          /\ Commit(lv_unlock(ta_event_cb(
                        lv_obj_add_state(Ui("ta_event_cb", -1), r[1], "FOCUSED"),
                        r[3], r[1])))

\* the codes the keyboard sends when a key is pressed on it
KeyCodes == {"LV_EVENT_VALUE_CHANGED", "LV_EVENT_READY", "LV_EVENT_CANCEL"}

\* the user presses a key of the keyboard that is on the screen
KeyboardKey ==
    /\ Running
    /\ \E r \in lvgl.cbs, code \in KeyCodes,
          ub \in IF Dangling(Machine, settings.ta_pass)
                 THEN {"silent", "crash"} ELSE {"silent"} :
          /\ r[2] = "kb_event_cb"
          /\ ~lv_obj_has_flag(Machine, r[1], "HIDDEN")
          /\ Commit(lv_unlock(kb_event_cb(Ui("kb_event_cb", -1), code, r[1],
                                          [EnvDefault EXCEPT !.ub = ub])))

\* a click on the Save WiFi button of the Network panel
ClickSave ==
    /\ Running
    /\ \E r \in lvgl.cbs :
          /\ r[2] = "save_wifi_event_cb"
          /\ Commit(lv_unlock(save_wifi_event_cb(Ui("save_wifi_event_cb", -1))))

\* the readings a stats provider may give
StatsReadings ==
    StatsAnswers \cup
    { [voltage_cV |-> 498, cpu_usage |-> 93, flash_used_kb |-> 1024,
       flash_total_kb |-> 8192, ram_used_kb |-> 300, ram_total_kb |-> 512] }

\* the outside changes: the device joins or leaves its network
NetChanges ==
    /\ Running
    /\ \E answer \in NetAnswers \ {world.net} :
          world' = [world EXCEPT !.net = answer]
    /\ trace' = Enter(Machine, "outside", -1, NULL).trace
    /\ UNCHANGED <<build, shell, menu, logs, settings, lvgl, heap, tasks>>

\* the outside changes: the load and the supply of the device move
StatsChange ==
    /\ Running
    /\ \E answer \in StatsReadings \ {world.stats} :
          world' = [world EXCEPT !.stats = answer]
    /\ trace' = Enter(Machine, "outside", -1, NULL).trace
    /\ UNCHANGED <<build, shell, menu, logs, settings, lvgl, heap, tasks>>

\* the shell, the drawer and the screens, with no provider registered
Next ==
    \/ ApiInit
    \/ ApiSwitchScreen
    \/ ClickNav
    \/ ClickHamburger
    \/ ClickBlocker
    \/ AnimStep
    \/ DeferredLoad
    \/ ClickCategory

Spec == Init /\ [][Next]_vars

\* the locking functions of the shell, with the clock and the drawer
NextLock ==
    \/ ApiInit
    \/ ApiSwitchScreen
    \/ ApiSetTimeProvider
    \/ ClockTick
    \/ ClickHamburger
    \/ AnimStep
    \/ ClickNav
    \/ DeferredLoad

SpecLock == Init /\ [][NextLock]_vars

----------------------------------------------------------------------------
(* What the claims speak of *)

\* the widgets directly inside the content area
ContentChildren == {p[1] : p \in {q \in lvgl.tree : q[2] = "content_area"}}

\* the widgets each screen puts directly inside the content area
ScreenRoots(k) ==
    CASE k = MINIGUI_SCREEN_HOME -> {"cont"}
      [] k = MINIGUI_SCREEN_LOGS -> {"header_cont", "data_table"}
      [] k = MINIGUI_SCREEN_SETTINGS -> {"main_cont", "kb"}

ScreenTitle(k) ==
    CASE k = MINIGUI_SCREEN_HOME -> "Home"
      [] k = MINIGUI_SCREEN_LOGS -> "System Logs"
      [] k = MINIGUI_SCREEN_SETTINGS -> "Settings"

ValidScreens == 0..(MINIGUI_SCREEN_COUNT - 1)

\* the content area shows screen k and nothing else, under k's title
Shows(k) ==
    /\ ContentChildren = ScreenRoots(k)
    /\ TextOf(Machine, "lbl_title") = ScreenTitle(k)

\* the positions of the events of one kind in the last handler's log
EventsOf(kind) == {i \in 1..Len(trace.log) : trace.log[i][1] = kind}

\* in the last handler, every screen creator ran right after a clean of the
\* content area, with no other creator in between
CleanedBeforeCreated ==
    \A i \in EventsOf("creator") :
        \E j \in EventsOf("clean") :
            /\ j < i
            /\ trace.log[j][2] = "content_area"
            /\ \A m \in EventsOf("creator") : ~(j < m /\ m < i)

\* C1: once minigui_init has run, between any two handlers the content area
\* holds the widgets of exactly one screen under that screen's title; when the
\* last handler called minigui_switch_screen with a valid id that screen is
\* the one it asked for last, and the old widgets were cleaned away before
\* the creator ran.
C1_OneScreenShown ==
    shell.content_area # NULL =>
        /\ \E k \in ValidScreens : Shows(k)
        /\ CleanedBeforeCreated
        /\ (trace.switches # << >>
            /\ trace.switches[Len(trace.switches)] \in ValidScreens)
              => Shows(trace.switches[Len(trace.switches)])

C1_Witness ==
    /\ trace.op = "nav_btn_cb"
    /\ trace.switches = <<MINIGUI_SCREEN_SETTINGS>>
    /\ Shows(MINIGUI_SCREEN_SETTINGS)
    /\ logs.data_table # NULL

\* C2: a minigui_switch_screen call with an id >= MINIGUI_SCREEN_COUNT, or made
\* while content_area is still NULL, leaves every program variable as it was
\* and does nothing but return: no lock, no clean, no title, no creator.
C2_InvalidSwitchIsNoOp ==
    [][(/\ trace'.op = "minigui_switch_screen"
        /\ (trace'.arg >= MINIGUI_SCREEN_COUNT \/ shell.content_area = NULL))
       => /\ UNCHANGED <<build, shell, menu, logs, settings, lvgl, heap>>
          /\ trace'.log = << <<"call", "minigui_switch_screen", 0>> >>]_vars

C2_Witness ==
    /\ trace.op = "minigui_switch_screen"
    /\ trace.arg >= MINIGUI_SCREEN_COUNT
    /\ shell.content_area # NULL
    /\ trace.log = << <<"call", "minigui_switch_screen", 0>> >>

\* the creator that ran last in the last handler
LastCreator ==
    LET cs == EventsOf("creator")
    IN IF cs = {} THEN "none"
       ELSE trace.log[CHOOSE i \in cs : \A j \in cs : j <= i][2]

\* C3: when minigui_init returns the Home screen is shown: the Home creator
\* ran last and the title reads "Home", not "Dashboard".
C3_InitShowsHome ==
    trace.op = "minigui_init" =>
        /\ Shows(MINIGUI_SCREEN_HOME)
        /\ LastCreator = "create_screen_home"
        /\ TextOf(Machine, "lbl_title") # "Dashboard"

C3_Witness ==
    /\ trace.op = "minigui_init"
    /\ TextOf(Machine, "lbl_title") = "Home"
    /\ ContentChildren = {"cont"}

\* the text on the drawer button btn (the label inside it)
ButtonText(btn) ==
    LET lbl == CHOOSE p \in lvgl.tree : p[2] = btn
    IN TextOf(Machine, lbl[1])

ScreenOfButtonText(txt) ==
    CASE txt = "Home" -> MINIGUI_SCREEN_HOME
      [] txt = "Logs" -> MINIGUI_SCREEN_LOGS
      [] txt = "Settings" -> MINIGUI_SCREEN_SETTINGS

\* C4: a click on the drawer button labelled Home, Logs or Settings calls
\* minigui_switch_screen exactly once, with HOME, LOGS or SETTINGS.
C4_ButtonToScreen ==
    trace.op = "nav_btn_cb" =>
        /\ ButtonText(trace.arg) \in {"Home", "Logs", "Settings"}
        /\ trace.switches = <<ScreenOfButtonText(ButtonText(trace.arg))>>

C4_Witness ==
    /\ trace.op = "nav_btn_cb"
    /\ ButtonText(trace.arg) = "Logs"
    /\ trace.switches = <<MINIGUI_SCREEN_LOGS>>
    /\ Shows(MINIGUI_SCREEN_LOGS)

\* the handlers that run one of the three locking functions
LockingOps ==
    {"minigui_init", "minigui_switch_screen", "minigui_set_time_provider",
     "nav_btn_cb"}

\* the kinds of event that write to the widgets or the timers
WritingEvents == {"mut", "clean", "timer_create", "timer_del", "uaf"}

\* C10: minigui_init, minigui_switch_screen and minigui_set_time_provider
\* unlock as often as they lock on every path, never unlock more than was
\* locked, write to widgets only with the lock held, and minigui_init holds
\* no lock when it calls minigui_switch_screen.
C10_LockBalanced ==
    trace.op \in LockingOps =>
        /\ Cardinality(EventsOf("lock")) = Cardinality(EventsOf("unlock"))
        /\ lvgl.lock_depth = 0 /\ lvgl.lock_owner = NULL
        /\ \A i \in EventsOf("unlock") : trace.log[i][3] >= 0
        /\ \A i \in 1..Len(trace.log) :
               trace.log[i][1] \in WritingEvents => trace.log[i][3] >= 1
        /\ trace.op = "minigui_init" =>
               \A i \in EventsOf("call") :
                   trace.log[i][2] = "minigui_switch_screen" => trace.log[i][3] = 0

C10_Witness ==
    /\ trace.op = "minigui_init"
    /\ Cardinality(EventsOf("lock")) = 2
    /\ Cardinality(EventsOf("unlock")) = 2
    /\ \E i \in EventsOf("call") :
           trace.log[i][2] = "minigui_switch_screen" /\ trace.log[i][3] = 0
    /\ \E i \in EventsOf("clean") : trace.log[i][3] = 1

\* the seven hooks: registration and the bridge operations that use them, in
\* the build as the repository's sources configure it
InitBridge == Init /\ ~build.MINIGUI_USE_MOCK_LOGS

NextBridge ==
    \/ ApiInit
    \/ ApiShowLogs
    \/ ApiRegisterBrightnessCb
    \/ ApiRegisterWifiSaveCb
    \/ ApiRegisterWifiScanProvider
    \/ ApiRegisterSystemStatsProvider
    \/ ApiRegisterNetworkStatusProvider
    \/ ApiSetTimeProvider
    \/ ApiSetLogProvider
    \/ ApiSetBrightness
    \/ ApiSaveWifiCredentials
    \/ ApiScanWifi
    \/ ApiGetSystemStats
    \/ ApiGetNetworkStatus
    \/ ClockTick
    \/ ApiRefreshLogs

SpecBridge == InitBridge /\ [][NextBridge]_vars

\* the Logs screen: its provider, its refreshes, and leaving it for Home
NextLogs ==
    \/ ApiInit
    \/ ApiShowLogs
    \/ ApiShowHome
    \/ ApiSetLogProvider
    \/ ApiRefreshLogTable
    \/ DeferredLoad
    \/ ClickRefresh
    \/ PickFilter

SpecLogs == Init /\ [][NextLogs]_vars

----------------------------------------------------------------------------
(* The bridge and the log table: what the history of a handler must show *)

\* the operations that use a hook, and the hook each uses
BridgeHook ==
    [minigui_set_brightness |-> "brightness",
     minigui_save_wifi_credentials |-> "wifi_save",
     minigui_scan_wifi |-> "wifi_scan",
     minigui_get_system_stats |-> "system_stats",
     minigui_get_network_status |-> "network_status",
     update_clock_cb |-> "time",
     refresh_log_table |-> "logs"]

BridgeOps == DOMAIN BridgeHook

\* the arguments the caller of the running bridge operation gave, as the
\* callback's signature lists them
CallerArgs ==
    CASE trace.op \in {"minigui_set_brightness", "minigui_save_wifi_credentials",
                       "minigui_scan_wifi"} -> <<trace.arg>>
      [] trace.op = "update_clock_cb" -> <<32>>
      [] trace.op = "refresh_log_table" -> <<MINIGUI_MAX_LOGS, trace.arg>>
      [] OTHER -> << >>

\* the same, with the filter refresh_log_table substitutes for NULL
PassedArgs ==
    IF trace.op = "refresh_log_table" /\ trace.arg = NULL
    THEN <<MINIGUI_MAX_LOGS, "ALL">>
    ELSE CallerArgs

RowOf(e) == <<e.timestamp, e.source, e.level, e.message>>

RowsOf(entries) == [i \in 1..Len(entries) |-> RowOf(entries[i])]

\* the running bridge operation handed result to its caller or to its widget
Delivered(result) ==
    CASE trace.op \in {"minigui_scan_wifi", "minigui_get_system_stats",
                       "minigui_get_network_status"} -> trace.out = result
      [] trace.op = "update_clock_cb" -> TextOf(Machine, shell.lbl_clock) = result
      [] trace.op = "refresh_log_table" ->
             Len(result) > 0 => lvgl.table = RowsOf(result)
      [] OTHER -> trace.out = << >>

\* the running log refresh found its table and its buffer
LogsReached ==
    /\ logs.data_table # NULL /\ ~Dangling(Machine, logs.data_table)
    /\ EventsOf("malloc") # {}

OneCall(hook, cb, args) ==
    /\ Len(trace.calls) = 1
    /\ trace.calls[1].hook = hook
    /\ trace.calls[1].cb = cb
    /\ trace.calls[1].args = args
    /\ Delivered(trace.calls[1].result)

C6_Step ==
    LET op == trace'.op
        out == trace'.out
    IN /\ \A i \in 1..Len(trace'.calls) : trace'.calls[i].cb # NULL
       /\ (/\ op \in BridgeOps \ {"refresh_log_table"}
           /\ trace'.registered[BridgeHook[op]] = NULL) =>
              /\ trace'.calls = << >>
              /\ op \in {"minigui_set_brightness", "minigui_save_wifi_credentials"} =>
                     /\ UNCHANGED <<build, shell, menu, logs, settings, lvgl, heap>>
                     /\ trace'.log = << >> /\ out = << >>
              /\ op = "minigui_scan_wifi" =>
                     /\ out.count = IF trace'.arg > 5 THEN 5 ELSE trace'.arg
                     /\ Len(out.networks) = out.count
                     /\ \A i \in 1..out.count :
                            /\ out.networks[i].ssid = mock_ssids[i]
                            /\ out.networks[i].rssi = -50 - (10 * (i - 1))
              /\ op = "minigui_get_system_stats" =>
                     /\ out.voltage_cV \in 500..599
                     /\ out.cpu_usage \in 15..54
                     /\ out.flash_used_kb = 512 /\ out.flash_total_kb = 4096
                     /\ out.ram_used_kb = 128 /\ out.ram_total_kb = 520
              /\ op = "minigui_get_network_status" =>
                     out = [connected |-> TRUE, ssid |-> "Home_WiFi_2.4G",
                            ip_address |-> "192.168.1.42",
                            mac_address |-> "AA:BB:CC:DD:EE:FF"]
              /\ op = "update_clock_cb" =>
                     /\ \E i \in 1..Len(trace'.log) : trace'.log[i][1] = "libc"
                     /\ lvgl'.text[shell'.lbl_clock] = EnvDefault.libc_time

C6_SilentFallback == [][C6_Step]_vars

\* a scan for up to MaxScanCount networks answered by the mock after NULL
\* replaced cbA on the scan hook
C6_Witness ==
    /\ trace.op = "minigui_scan_wifi" /\ trace.arg = MaxScanCount
    /\ <<"wifi_scan", "cbA">> \in trace.replaced
    /\ trace.registered["wifi_scan"] = NULL
    /\ trace.calls = << >>
    /\ trace.out.count = 5

\* the handlers that refresh the log table
RefreshOps ==
    {"refresh_log_table", "deferred_load_cb", "refresh_button_cb", "filter_event_cb"}

\* the filter the running refresh loads the logs for
RefreshFilter ==
    CASE trace.op = "refresh_log_table" ->
             IF trace.arg = NULL THEN "ALL" ELSE trace.arg
      [] trace.op = "deferred_load_cb" -> "ALL"
      [] OTHER -> lv_dropdown_get_selected_str(Machine, logs.filter_dropdown)

\* the running handler was a refresh that wrote to the table on the screen
RefreshedTable ==
    /\ trace.op \in RefreshOps
    /\ logs.data_table # NULL /\ ~Dangling(Machine, logs.data_table)
    /\ EventsOf("uaf") = {}

NoLogsRows(filter) == << <<"No logs", "for", "filter", filter>> >>

\* the mock entries whose source the filter lets through
MockMatches(filter) ==
    {i \in 1..Len(mock_data) : filter = "ALL" \/ mock_data[i].src = filter}

\* C7, as the specification states it: after a refresh of the table on the
\* screen with no log provider registered and the buffer allocated, the table
\* shows mock rows (each row's message is one of the canned mock messages).
C7_MockRowsShown ==
    (/\ RefreshedTable /\ EventsOf("malloc") # {}
     /\ trace.registered["logs"] = NULL) =>
        /\ Len(lvgl.table) >= 1
        /\ \A r \in 1..Len(lvgl.table) :
               \E i \in 1..Len(mock_data) : lvgl.table[r][4] = mock_data[i].msg

\* C7, amended: after such a refresh the table shows the mock entries whose
\* source passes the filter, in the mock's order, only in a build that defines
\* MINIGUI_USE_MOCK_LOGS and only when some entry passes; in every other
\* case (the build without the macro, a filter no mock entry has) it shows the
\* single row "No logs", "for", "filter", <filter>.
C7_MockOnlyWhenBuilt ==
    (/\ RefreshedTable /\ EventsOf("malloc") # {}
     /\ trace.registered["logs"] = NULL) =>
        /\ trace.calls = << >>
        /\ IF build.MINIGUI_USE_MOCK_LOGS /\ MockMatches(RefreshFilter) # {}
           THEN /\ Len(lvgl.table) = Cardinality(MockMatches(RefreshFilter))
                /\ \A r \in 1..Len(lvgl.table) :
                       \E i \in MockMatches(RefreshFilter) :
                           /\ Cardinality({j \in MockMatches(RefreshFilter) : j < i})
                                  = r - 1
                           /\ lvgl.table[r][2] = mock_data[i].src
                           /\ lvgl.table[r][3] = mock_data[i].lvl
                           /\ lvgl.table[r][4] = mock_data[i].msg
           ELSE lvgl.table = NoLogsRows(RefreshFilter)

\* a refresh without provider in the build without the mock, and one in the
\* build with it
C7_Witness ==
    /\ RefreshedTable /\ EventsOf("malloc") # {}
    /\ trace.registered["logs"] = NULL
    /\ ~build.MINIGUI_USE_MOCK_LOGS
    /\ lvgl.table = NoLogsRows("ALL")

\* C8: after a refresh of the table on the screen in which malloc failed, the
\* table has exactly one row, its message column reads "Memory error", no
\* provider and no mock was called, nothing was freed and no buffer is held.
C8_MemoryError ==
    (RefreshedTable /\ EventsOf("malloc_failed") # {}) =>
        /\ Len(lvgl.table) = 1
        /\ lvgl.table[1][4] = "Memory error"
        /\ trace.calls = << >>
        /\ \A i \in EventsOf("call") : trace.log[i][2] # "internal_get_logs"
        /\ EventsOf("free") = {}
        /\ heap.log_buffers = 0

\* malloc failed in a refresh made with a provider registered
C8_Witness ==
    /\ RefreshedTable /\ EventsOf("malloc_failed") # {}
    /\ trace.registered["logs"] # NULL
    /\ lvgl.table = << <<"", "", "", "Memory error">> >>

\* C9: after a refresh of the table on the screen in which the provider
\* returned n entries, n in 1..MINIGUI_MAX_LOGS, the table has n rows and row
\* i shows entry i's timestamp, source, level and message; for n = 0 the table
\* is the one row "No logs", "for", "filter", <filter> ("ALL" for a NULL
\* filter); no cell reads "Loading...", and the buffer was freed.
C9_ProviderRows ==
    (RefreshedTable /\ Len(trace.calls) = 1) =>
        LET result == trace.calls[1].result
        IN /\ Len(result) <= MINIGUI_MAX_LOGS
           /\ Len(result) >= 1 =>
                  /\ Len(lvgl.table) = Len(result)
                  /\ \A i \in 1..Len(result) :
                         /\ lvgl.table[i][1] = result[i].timestamp
                         /\ lvgl.table[i][2] = result[i].source
                         /\ lvgl.table[i][3] = result[i].level
                         /\ lvgl.table[i][4] = result[i].message
           /\ Len(result) = 0 => lvgl.table = NoLogsRows(RefreshFilter)
           /\ \A r \in 1..Len(lvgl.table), c \in 1..4 : lvgl.table[r][c] # "Loading..."
           /\ heap.log_buffers = 0

\* a provider filled the whole buffer
C9_Witness ==
    /\ RefreshedTable /\ Len(trace.calls) = 1
    /\ Len(trace.calls[1].result) = MINIGUI_MAX_LOGS
    /\ Len(lvgl.table) = MINIGUI_MAX_LOGS

\* a provider returned nothing for a NULL filter
C9_WitnessEmpty ==
    /\ RefreshedTable /\ Len(trace.calls) = 1
    /\ trace.op = "refresh_log_table" /\ trace.arg = NULL
    /\ Len(trace.calls[1].result) = 0
    /\ lvgl.table = NoLogsRows("ALL")

----------------------------------------------------------------------------
(* minigui_switch_screen run by two application threads, one statement at a *)
(* time                                                                    *)

\* mutant: a build of the toolkit without an OS, whose lv_lock never waits
CanLock_NoOs(t) == TRUE

\* lv_lock() returns to thread t only when no other thread holds the mutex
CanLock(t) == lvgl.lock_depth = 0 \/ lvgl.lock_owner = t

\* the machine state as thread t sees it on entering its next statement
AsTask(t) == Enter(Machine, "minigui_switch_screen", tasks[t].screen_type, t)

At(s, t, pc) == [s EXCEPT !.tasks[t].pc = pc]

\* the call and the guard of lines 493-495
TaskCall ==
    /\ Running
    /\ \E t \in Tasks, screen_type \in 0..MaxScreenArg :
          /\ tasks[t].pc = "idle"
          /\ MayCreate(screen_type)
          /\ LET s == Called(Enter(Machine, "minigui_switch_screen", screen_type, t),
                             screen_type)
             IN IF screen_type >= MINIGUI_SCREEN_COUNT \/ shell.content_area = NULL
                THEN Commit(s)
                ELSE Commit([s EXCEPT !.tasks[t] =
                                [pc |-> "lv_lock", screen_type |-> screen_type]])

TaskLock ==
    \E t \in Tasks :
        /\ tasks[t].pc = "lv_lock"
        /\ CanLock(t)
        /\ Commit(At(lv_lock(AsTask(t)), t, "lv_obj_clean"))

TaskClean ==
    \E t \in Tasks :
        /\ tasks[t].pc = "lv_obj_clean"
        /\ LET s1 == lv_obj_clean(AsTask(t), shell.content_area)
           IN Commit(At(lv_obj_set_style(s1, shell.content_area), t,
                        "lv_label_set_text"))

TaskTitle ==
    \E t \in Tasks :
        /\ tasks[t].pc = "lv_label_set_text"
        /\ Commit(At(lv_label_set_text(AsTask(t), shell.lbl_title,
                                       titles[tasks[t].screen_type + 1]),
                     t, "screen_creators"))

TaskCreate ==
    \E t \in Tasks :
        /\ tasks[t].pc = "screen_creators"
        /\ Commit(At(screen_creators(AsTask(t), tasks[t].screen_type,
                                     shell.content_area, EnvDefault),
                     t, "lv_unlock"))

TaskUnlock ==
    \E t \in Tasks :
        /\ tasks[t].pc = "lv_unlock"
        /\ Commit([lv_unlock(AsTask(t)) EXCEPT
                      !.tasks[t] = [pc |-> "idle", screen_type |-> -1]])

NextTasks ==
    \/ ApiInit
    \/ TaskCall
    \/ TaskLock
    \/ TaskClean
    \/ TaskTitle
    \/ TaskCreate
    \/ TaskUnlock

SpecTasks == Init /\ [][NextTasks]_vars

\* the threads that stand between lv_lock() and lv_unlock()
InsideLock ==
    {t \in Tasks : tasks[t].pc \in {"lv_obj_clean", "lv_label_set_text",
                                    "screen_creators", "lv_unlock"}}

\* C11: with two threads in minigui_switch_screen, at most one of them is
\* between lv_lock and lv_unlock and it owns the lock; whenever the lock is
\* free after minigui_init, the content area holds the widgets of exactly one
\* screen and the title is that screen's.
C11_SwitchesSerialised ==
    /\ Cardinality(InsideLock) <= 1
    /\ \A t \in InsideLock : lvgl.lock_owner = t /\ lvgl.lock_depth = 1
    /\ (lvgl.lock_depth = 0 /\ shell.content_area # NULL) =>
           \E k \in ValidScreens : Shows(k)

\* one thread has cleaned the content area for Logs while the other waits
\* for the lock with a switch to Settings
C11_Witness ==
    /\ tasks["app"] = [pc |-> "screen_creators", screen_type |-> MINIGUI_SCREEN_LOGS]
    /\ tasks["net"] = [pc |-> "lv_lock", screen_type |-> MINIGUI_SCREEN_SETTINGS]
    /\ ContentChildren = {}

----------------------------------------------------------------------------
(* The drawer: toggles by the application, the hamburger button, the       *)
(* blocker and the navigation buttons, and the animation in between        *)

NextMenu ==
    \/ ApiInit
    \/ ApiMenuToggle
    \/ ClickHamburger
    \/ ClickBlocker
    \/ ClickNav
    \/ AnimStep
    \/ DeferredLoad

SpecMenu == Init /\ [][NextMenu]_vars

\* the handlers that end with one call of minigui_menu_toggle
ToggleOps == {"minigui_menu_toggle", "menu_btn_event_cb", "blocker_cb", "nav_btn_cb"}

BlockerVisible(l) == <<"menu_blocker", "HIDDEN">> \notin l.flags

\* C12: once minigui_menu_init has run, the blocker is visible iff the drawer
\* animation started last runs to x = 0; a handler that calls
\* minigui_menu_toggle while the blocker is hidden shows it and starts the
\* animation from -250 to 0, one that calls it while the blocker is visible
\* hides it and starts the animation from 0 to -250, so that each toggle
\* inverts the open/closed state and two in a row restore it; a toggle before
\* minigui_menu_init changes nothing.
C12_Step ==
    /\ menu'.menu_blocker # NULL =>
           (BlockerVisible(lvgl') <=>
                (lvgl'.last_anim # << >> /\ lvgl'.last_anim[2] = 0))
    /\ trace'.op \in ToggleOps =>
           IF menu.menu_drawer = NULL \/ menu.menu_blocker = NULL
           THEN UNCHANGED <<build, shell, menu, logs, settings, lvgl, heap, tasks>>
           ELSE /\ BlockerVisible(lvgl') = ~BlockerVisible(lvgl)
                /\ lvgl'.anim = lvgl'.last_anim
                /\ lvgl'.last_anim = IF BlockerVisible(lvgl)
                                     THEN <<0, -DRAWER_WIDTH>>
                                     ELSE <<-DRAWER_WIDTH, 0>>
                /\ lvgl'.drawer_x = lvgl'.last_anim[1]

C12_ToggleAlternates == [][C12_Step]_vars

\* a toggle by the application that closed the menu another toggle had opened
C12_Witness ==
    /\ trace.op = "minigui_menu_toggle"
    /\ ~BlockerVisible(lvgl)
    /\ lvgl.last_anim = <<0, -DRAWER_WIDTH>>
    /\ lvgl.anim = <<0, -DRAWER_WIDTH>>

\* C13, as the specification states it: whenever a click on a navigation
\* button has been handled, the menu is closed: the blocker is hidden and the
\* drawer animation started last runs to x = -250.
C13_NavClickClosesMenu ==
    trace.op = "nav_btn_cb" =>
        /\ ~BlockerVisible(lvgl)
        /\ lvgl.last_anim = <<0, -DRAWER_WIDTH>>

----------------------------------------------------------------------------
(* The Network panel of the Settings screen *)

NextWifi ==
    \/ ApiInit
    \/ ApiShowSettings
    \/ ClickCategory
    \/ ApiRegisterWifiSaveCb
    \/ ApiRegisterWifiScanProvider
    \/ ClickScan
    \/ PickSsid
    \/ TypePassword
    \/ ClickSave

SpecWifi == Init /\ [][NextWifi]_vars

\* the option texts the dropdown shows in place of a network
Hints == {"No networks found", "Scan to see networks..."}

\* C14: a click on Save WiFi invokes the registered save callback exactly
\* once when the selected SSID is non-empty and is neither "No networks found"
\* nor "Scan to see networks...", and invokes nothing otherwise (nor when no
\* callback is registered); the credentials passed hold the selected SSID and
\* the typed password cut to at most 63 and 127 characters.  A new Network
\* panel offers only the hint "Scan to see networks...", and a scan that found
\* nothing leaves only "No networks found": a click on Save WiFi then invokes
\* nothing.
C14_Step ==
    LET dd == settings.dd_ssid
        selected == lv_dropdown_get_selected_str(Machine, dd)
        typed == TextOf(Machine, settings.ta_pass)
        calls == trace'.calls
    IN /\ trace'.op = "save_wifi_event_cb" =>
              /\ Len(calls) = IF selected \notin Hints \cup {""}
                                 /\ trace.registered["wifi_save"] # NULL
                              THEN 1 ELSE 0
              /\ \A i \in 1..Len(calls) :
                     /\ calls[i].hook = "wifi_save"
                     /\ calls[i].cb = trace.registered["wifi_save"]
                     /\ calls[i].args = <<[ssid |-> selected,
                                           password |-> Take(typed, 127)]>>
                     /\ Len(calls[i].args[1].ssid) \in 1..63
                     /\ Len(calls[i].args[1].password) <= 127
              /\ lvgl.options[dd] \in {<<h>> : h \in Hints} => calls = << >>
       /\ (trace'.op = "category_event_cb" /\ trace'.arg = SETTINGS_CAT_NETWORK) =>
              /\ lvgl'.options[settings'.dd_ssid] = <<"Scan to see networks...">>
              /\ lvgl'.selected[settings'.dd_ssid] = 0
       /\ (trace'.op = "scan_wifi_event_cb" /\ trace'.out.count = 0) =>
              lvgl'.options[settings'.dd_ssid] = <<"No networks found">>

C14_SaveOnlyRealNetwork == [][C14_Step]_vars

\* Save WiFi clicked with the 63-character SSID selected and a password of
\* more than 127 characters typed: the callback was invoked once
C14_Witness ==
    /\ trace.op = "save_wifi_event_cb"
    /\ Len(trace.calls) = 1
    /\ trace.calls[1].args[1].ssid = LongSsid
    /\ Len(trace.calls[1].args[1].password) = 127
    /\ Len(TextOf(Machine, settings.ta_pass)) = MaxPasswordLen

\* Save WiFi clicked after a scan that found nothing, with a callback registered
C14_WitnessNone ==
    /\ trace.op = "save_wifi_event_cb"
    /\ trace.calls = << >>
    /\ trace.registered["wifi_save"] # NULL
    /\ lvgl.options[settings.dd_ssid] = <<"No networks found">>

----------------------------------------------------------------------------
(* The clock of the status bar *)

\* the handlers that update the clock: the timer, the immediate update of
\* minigui_set_time_provider, and the first update made by minigui_init
ClockOps == {"update_clock_cb", "minigui_set_time_provider", "minigui_init"}

\* C15: once a non-NULL time provider p is registered (and until another
\* registration replaces it), every clock update made while the clock label
\* exists calls p once, shows the string p produced and never asks libc;
\* minigui_set_time_provider itself refreshes the label from p before it
\* returns when the user interface is initialised, and when minigui_init has
\* not run it stores p and leaves every widget and every other variable as
\* it was.
C15_Step ==
    LET p == trace'.registered["time"]
        op == trace'.op
    IN /\ (op \in ClockOps /\ p # NULL /\ shell'.lbl_clock # NULL) =>
              /\ Len(trace'.calls) = 1
              /\ trace'.calls[1].hook = "time" /\ trace'.calls[1].cb = p
              /\ lvgl'.text[shell'.lbl_clock] = trace'.calls[1].result
              /\ \A i \in 1..Len(trace'.log) : trace'.log[i][1] # "libc"
       /\ op = "minigui_set_time_provider" =>
              /\ shell' = [shell EXCEPT !.global_time_provider = trace'.arg]
              /\ shell.lbl_clock = NULL =>
                     /\ UNCHANGED <<build, menu, logs, settings, lvgl, heap, tasks>>
                     /\ trace'.calls = << >>
                     /\ \A i \in 1..Len(trace'.log) :
                            trace'.log[i][1] \in {"lock", "unlock"}

C15_ProviderShown == [][C15_Step]_vars

\* a tick of the clock timer with cbA registered as the time provider
C15_Witness ==
    /\ trace.op = "update_clock_cb"
    /\ trace.registered["time"] = "cbA"
    /\ Len(trace.calls) = 1 /\ trace.calls[1].cb = "cbA"
    /\ TextOf(Machine, shell.lbl_clock) = EnvDefault.time_out

\* minigui_set_time_provider(cbB) called before minigui_init
C15_WitnessEarly ==
    /\ trace.op = "minigui_set_time_provider" /\ trace.arg = "cbB"
    /\ shell.lbl_clock = NULL /\ shell.global_time_provider = "cbB"
    /\ lvgl.tree = {}

----------------------------------------------------------------------------
(* The mock WiFi scan *)

\* C16: with no scan provider registered, minigui_scan_wifi(networks,
\* max_count) calls nothing, returns min(5, max_count), writes exactly the
\* entries below the returned count, entry i holding the i-th SSID of the
\* fixed list (shorter than its 64-byte field) and rssi = -50 - 10 * i; for
\* max_count = 0 it returns 0 and writes nothing.
C16_MockScan ==
    (trace.op = "minigui_scan_wifi" /\ shell.wifi_scan_provider = NULL) =>
        LET max_count == trace.arg
            fixed == <<"Home_WiFi_2.4G", "Office_Secure", "CoffeeShop_Free",
                       "Starlink_99", "Guest_Lounge">>
        IN /\ trace.calls = << >>
           /\ trace.out.count = IF max_count < 5 THEN max_count ELSE 5
           /\ DOMAIN trace.out.networks = 1..trace.out.count
           /\ \A i \in 0..(trace.out.count - 1) :
                  /\ trace.out.networks[i + 1].ssid = fixed[i + 1]
                  /\ Len(trace.out.networks[i + 1].ssid) <= 63
                  /\ trace.out.networks[i + 1].rssi = -50 - (10 * i)
           /\ max_count = 0 => trace.out = [count |-> 0, networks |-> << >>]

\* a mock scan into a buffer of two entries
C16_Witness ==
    /\ trace.op = "minigui_scan_wifi" /\ trace.arg = 2
    /\ shell.wifi_scan_provider = NULL
    /\ trace.out.count = 2
    /\ trace.out.networks[2] = [ssid |-> "Office_Secure", rssi |-> -60]

\* a mock scan into a buffer of no entry
C16_WitnessZero ==
    /\ trace.op = "minigui_scan_wifi" /\ trace.arg = 0
    /\ shell.wifi_scan_provider = NULL
    /\ trace.out.count = 0

----------------------------------------------------------------------------
(* The Monitor and Network panels while the outside changes *)

NextPoll ==
    \/ ApiInit
    \/ ApiShowSettings
    \/ ClickCategory
    \/ ApiRegisterSystemStatsProvider
    \/ ApiRegisterNetworkStatusProvider
    \/ NetChanges
    \/ StatsChange
    \/ MonitorTick

SpecPoll == InitBridge /\ [][NextPoll]_vars

\* the toolkit's loop runs the monitor timer whenever it is due; nothing
\* obliges the user or the application to act
SpecPollFair == SpecPoll /\ WF_vars(MonitorTick)

CpuText(stats) == "CPU Usage: " \o ToString(stats.cpu_usage) \o "%"

\* the Monitor panel is displayed and does not show what the registered stats
\* provider would answer now
MonitorStale ==
    /\ IsLive(Machine, "monitor_cont")
    /\ shell.system_stats_provider # NULL
    /\ TextOf(Machine, "lbl_cpu") # CpuText(world.stats)

\* the Network panel is displayed and does not show the connection state the
\* registered status provider would answer now
NetStale ==
    /\ IsLive(Machine, "lbl_network")
    /\ shell.network_status_provider # NULL
    /\ world.net.connected # IsLive(Machine, "lbl_ssid_status")

\* C17, as the specification states it: both panels are refreshed by a
\* timer, so a Monitor panel and a Network panel that do not show the present
\* answer of their provider eventually do, with no action of the user.
C17_BothPolled ==
    /\ MonitorStale ~> ~MonitorStale
    /\ NetStale ~> ~NetStale

\* the hooks the calls of the step's handler went through
HooksCalled == {trace'.calls[i].hook : i \in 1..Len(trace'.calls)}

C17_Step ==
    /\ (/\ trace'.op = "monitor_timer_cb"
        /\ shell.system_stats_provider # NULL
        /\ settings.lbl_cpu # NULL) =>
           /\ Len(trace'.calls) = 1
           /\ trace'.calls[1].hook = "system_stats"
           /\ trace'.calls[1].result = world.stats
           /\ lvgl'.text["lbl_cpu"] = CpuText(world.stats)
    /\ "network_status" \in HooksCalled =>
           /\ trace'.op = "category_event_cb" /\ trace'.arg = SETTINGS_CAT_NETWORK
           /\ Len(trace'.calls) = 1
           /\ trace'.calls[1].result = world.net
           /\ world.net.connected = IsLive([lvgl |-> lvgl'], "lbl_ssid_status")
    /\ trace'.op = "monitor_timer_cb" =>
           /\ "network_status" \notin HooksCalled
           /\ IsLive(Machine, "lbl_ssid_status")
                  = IsLive([lvgl |-> lvgl'], "lbl_ssid_status")

\* every step polls as C17_Step says
C17_Always == [][C17_Step]_vars

\* C17, amended: only the system stats are polled.  While the Monitor panel
\* is displayed every tick of its timer queries the stats provider once and
\* shows its answer, so a Monitor panel that is out of date eventually is up
\* to date; the network-status provider is queried once, when the Network
\* panel is built by a click on its category, and no timer queries it or
\* changes the status shown.
C17_OnlyStatsPolled ==
    /\ C17_Always
    /\ MonitorStale ~> ~MonitorStale

\* a tick of the monitor timer that showed a reading which had changed since
\* the tick before
C17_Witness ==
    /\ trace.op = "monitor_timer_cb"
    /\ world.stats.cpu_usage = 93
    /\ Len(trace.calls) = 1 /\ trace.calls[1].result = world.stats
    /\ TextOf(Machine, "lbl_cpu") = "CPU Usage: 93%"

\* the Network panel shows a connection the device has lost
C17_WitnessStale ==
    /\ NetStale /\ ~world.net.connected
    /\ trace.op = "outside"

----------------------------------------------------------------------------
(* The Settings screen: its categories, the monitor timer, leaving the screen *)

NextSettings ==
    \/ ApiInit
    \/ ApiShowSettings
    \/ ApiShowHome
    \/ ClickCategory
    \/ MonitorTick
    \/ ApiRegisterSystemStatsProvider
    \/ StatsChange

SpecSettings == Init /\ [][NextSettings]_vars

\* the four stat-label pointers of the Monitor panel
StatLabels ==
    {settings.lbl_voltage, settings.lbl_cpu, settings.lbl_flash, settings.lbl_ram}

\* C18: the monitor timer exists exactly while the Monitor panel's container
\* exists, and there is never more than one; while the container exists the
\* four stat-label pointers point to its labels, and once it is destroyed (by
\* a change of category, by selecting Monitor again, or by a change of screen)
\* the timer is deleted and the four pointers are NULL; monitor_timer_cb
\* writes only to widgets that exist.
C18_TimerFollowsPanel ==
    /\ lvgl.timers.monitor_timer_cb = IF IsLive(Machine, "monitor_cont") THEN 1 ELSE 0
    /\ (settings.monitor_timer # NULL) = IsLive(Machine, "monitor_cont")
    /\ IF IsLive(Machine, "monitor_cont")
       THEN /\ StatLabels = {"lbl_voltage", "lbl_cpu", "lbl_flash", "lbl_ram"}
            /\ StatLabels \subseteq Descendants(Machine, "monitor_cont")
       ELSE StatLabels = {NULL}
    /\ trace.op = "monitor_timer_cb" =>
           /\ EventsOf("uaf") = {}
           /\ \A i \in EventsOf("mut") : IsLive(Machine, trace.log[i][2])

\* the Monitor panel was destroyed by a change of screen: its timer is gone
C18_Witness ==
    /\ trace.op = "minigui_switch_screen" /\ trace.arg = MINIGUI_SCREEN_HOME
    /\ EventsOf("timer_del") # {}
    /\ lvgl.timers.monitor_timer_cb = 0
    /\ settings.lbl_cpu = NULL

\* Monitor was selected while the Monitor panel was displayed
C18_WitnessAgain ==
    /\ trace.op = "category_event_cb" /\ trace.arg = SETTINGS_CAT_MONITOR
    /\ EventsOf("timer_del") # {} /\ EventsOf("timer_create") # {}
    /\ lvgl.timers.monitor_timer_cb = 1

\* C19: in every state content_pane and kb are NULL or point to a widget that
\* exists: once the widgets of the Settings screen are destroyed, the two
\* pointers are zeroed.
C19_PointersZeroed ==
    /\ ~Dangling(Machine, settings.content_pane)
    /\ ~Dangling(Machine, settings.kb)

----------------------------------------------------------------------------
(* The log table after the Logs screen is left *)

\* the handlers that reach update_table_with_logs or calculate_table_layout
TableOps == RefreshOps \cup {"parent_size_changed_cb"}

\* C20: no handler uses a data_table or a filter_dropdown that a screen
\* switch destroyed: a handler that reaches update_table_with_logs or
\* calculate_table_layout while the log table does not exist touches no
\* widget, allocates nothing, calls no provider and causes no fault.
C20_TableOnlyWhileLive ==
    /\ EventsOf("uaf") = {}
    /\ ~heap.crashed
    /\ (trace.op \in TableOps /\ ~IsLive(Machine, "data_table")) =>
           /\ EventsOf("mut") = {} /\ EventsOf("malloc") = {}
           /\ trace.calls = << >>

----------------------------------------------------------------------------
(* The log buffer of a refresh *)

\* the events of the last handler that allocate or free the log buffer
BufferEvents == EventsOf("malloc") \cup EventsOf("free")

\* C21: every refresh whose malloc returned a buffer frees it exactly once
\* before it returns, whether the provider or the mock gave entries or none,
\* a refresh whose malloc failed frees nothing, and between two handlers no
\* log buffer is outstanding, however many refreshes were made.
C21_BufferFreedOnce ==
    /\ heap.log_buffers = 0
    /\ Cardinality(EventsOf("free")) = Cardinality(EventsOf("malloc"))
    /\ \A i \in EventsOf("malloc") :
           \E j \in EventsOf("free") :
               /\ i < j
               /\ \A k \in BufferEvents : (i < k /\ k <= j) => k = j
    /\ \A j \in EventsOf("free") :
           \E i \in EventsOf("malloc") :
               /\ i < j
               /\ \A k \in BufferEvents : (i <= k /\ k < j) => k = i

\* a refresh to which a provider gave entries allocated and freed one buffer
C21_Witness ==
    /\ RefreshedTable /\ Len(trace.calls) = 1
    /\ Len(trace.calls[1].result) >= 1
    /\ Cardinality(EventsOf("malloc")) = 1
    /\ Cardinality(EventsOf("free")) = 1
    /\ heap.log_buffers = 0

\* a refresh that got no entry wrote the "No logs" row and freed its buffer
C21_WitnessEmpty ==
    /\ RefreshedTable /\ EventsOf("malloc") # {}
    /\ lvgl.table = NoLogsRows(RefreshFilter)
    /\ Cardinality(EventsOf("free")) = 1
    /\ heap.log_buffers = 0

----------------------------------------------------------------------------
(* The categories of the Settings screen *)

NextCategories ==
    \/ ApiInit
    \/ ApiShowSettings
    \/ ApiShowHome
    \/ ClickCategory
    \/ FocusPassword
    \/ KeyboardKey
    \/ MonitorTick
    \/ ApiRegisterNetworkStatusProvider
    \/ NetChanges

SpecCategories == InitBridge /\ [][NextCategories]_vars

Categories == SETTINGS_CAT_SCREEN..(SETTINGS_CAT_COUNT - 1)

\* the labels of the "Current Connection" section, connected and not
ConnectionLabels == { {"lbl_ssid_status", "lbl_ip", "lbl_mac"}, {"lbl_disconnected"} }

\* the widgets a panel puts directly into the content pane, the connection
\* labels of the Network panel apart
PanelRoots(cat) ==
    CASE cat = SETTINGS_CAT_SCREEN -> {"lbl_display", "lbl_bright", "slider"}
      [] cat = SETTINGS_CAT_NETWORK ->
             {"lbl_network", "lbl_status_hdr", "sep_network", "lbl_connect_hdr",
              "lbl_ssid", "ssid_row", "lbl_pass", "ta_pass", "btn_save"}
      [] cat = SETTINGS_CAT_SYSTEM ->
             {"lbl_system", "btn_reboot", "sep_system", "lbl_fw_hdr",
              "lbl_fw_version", "btn_check", "lbl_fw_status", "btn_fw_update"}
      [] cat = SETTINGS_CAT_MONITOR -> {"monitor_cont"}

\* the widgets directly in the content pane
PaneChildren == {p[1] : p \in {q \in lvgl.tree : q[2] = "content_pane"}}

\* the content pane holds the panel of category cat, whole
HoldsPanel(cat) ==
    IF cat = SETTINGS_CAT_NETWORK
    THEN /\ PaneChildren \ UNION ConnectionLabels = PanelRoots(cat)
         /\ PaneChildren \cap UNION ConnectionLabels \in ConnectionLabels
    ELSE PaneChildren = PanelRoots(cat)

\* no widget and no timer of the panel of category cat exists
PanelGone(cat) ==
    /\ PanelRoots(cat) \cap Live(Machine) = {}
    /\ cat = SETTINGS_CAT_NETWORK => UNION ConnectionLabels \cap Live(Machine) = {}
    /\ cat = SETTINGS_CAT_MONITOR => lvgl.timers.monitor_timer_cb = 0

\* C22: while the Settings screen is displayed the content pane holds exactly
\* the panel of current_category, and no widget or timer of any other panel
\* exists; a creation of the Settings screen leaves current_category on
\* Screen whatever it was before, and a click on the button of category c
\* leaves current_category = c.
C22_PaneShowsCurrentCategory ==
    /\ Shows(MINIGUI_SCREEN_SETTINGS) =>
           /\ settings.current_category \in Categories
           /\ settings.content_pane = "content_pane"
           /\ HoldsPanel(settings.current_category)
           /\ \A cat \in Categories \ {settings.current_category} : PanelGone(cat)
    /\ (trace.op = "minigui_switch_screen" /\ LastCreator = "create_screen_settings")
           => settings.current_category = SETTINGS_CAT_SCREEN
    /\ trace.op = "category_event_cb" => settings.current_category = trace.arg

\* the Settings screen was created again while it showed the Monitor panel:
\* the monitor timer was deleted and the pane holds the Screen panel
C22_Witness ==
    /\ trace.op = "minigui_switch_screen" /\ LastCreator = "create_screen_settings"
    /\ EventsOf("timer_del") # {}
    /\ settings.current_category = SETTINGS_CAT_SCREEN
    /\ PaneChildren = PanelRoots(SETTINGS_CAT_SCREEN)

\* a click built the Network panel of a device that is not connected
C22_WitnessClick ==
    /\ trace.op = "category_event_cb" /\ trace.arg = SETTINGS_CAT_NETWORK
    /\ EventsOf("clean") # {}
    /\ "lbl_disconnected" \in PaneChildren
    /\ "ta_pass" \in PaneChildren

\* the keyboard opened for the password field is still on the screen after
\* the Network panel was replaced
C22_WitnessKeyboard ==
    /\ Shows(MINIGUI_SCREEN_SETTINGS)
    /\ settings.current_category = SETTINGS_CAT_SYSTEM
    /\ ~lv_obj_has_flag(Machine, "kb", "HIDDEN")
    /\ <<"kb", "textarea=ta_pass">> \in lvgl.flags

====
